---- MODULE Spec2Model ----
(***************************************************************************)
(* Chunk storage of the Figma chunking server: the chunk model, the        *)
(* filesystem, Redis and Mongo storage adapters and the chunk filter.      *)
(*                                                                         *)
(* Time is in milliseconds, as in the JavaScript Date values of the code.  *)
(* Backend commands succeed, but for the delete command of deleteChunk,    *)
(* whose failure the adapters turn into a result; the catch branches that  *)
(* ordinary runs reach (a missing file, a rejected SETEX) are modelled     *)
(* where the code has them.                                                *)
(***************************************************************************)
EXTENDS Integers, Sequences, FiniteSets, TLC

VARIABLES
  backend,        \* which adapter the sequential store runs against
  now,            \* the wall clock the adapters read with new Date()
  fsFiles,        \* filesystem adapter: chunk id -> file content
  redisKeys,      \* Redis: chunk id -> payload key [val, expireAt]
  redisIndex,     \* Redis: <prefix>index
  redisTypeIndex, \* Redis: <prefix>type:<type>
  redisFileIndex, \* Redis: <prefix>file:<fileKey>
  mongoDocs,      \* Mongo: _id -> document
  mongoInFlight,  \* Mongo: commands issued without await, not yet applied
  last,           \* the operation that ran last, its arguments and result
  useLocks,       \* filesystem adapter, concurrent callers: config.useLocks
  disk,           \* the chunk file, <path>.tmp, <path>.lock and <path>.lock.tmp
  fp,             \* the callers of the filesystem adapter, each in one call
  rconn,          \* Redis adapter: client, connected, connecting and the clients made
  rcall,          \* the callers of the Redis adapter, each in one operation
  mgr,            \* StorageManager: the registry and the adapters made for it
  ck,             \* Chunker: the call made last, its input and its result
  graph,          \* ChunkReferenceGraph: adjacencyList, in insertion order
  mcp             \* FigmaMcpServer: the chunk cache, the tool calls and the HTTP server

storeVars == <<backend, now, fsFiles, redisKeys, redisIndex, redisTypeIndex,
               redisFileIndex, mongoDocs, mongoInFlight, last>>

fsVars == <<useLocks, disk, fp>>

connVars == <<rconn, rcall>>

restVars == <<mgr, ck, graph, mcp>>

vars == <<storeVars, fsVars, connVars, restVars>>

\* what the sequential store leaves alone
nonStoreVars == <<fsVars, connVars, restVars>>

----------------------------------------------------------------------------
(* Bounds and domains                                                      *)

MaxTicks == 2

MaxInFlight == 1

MsPerSecond == 1000

TickMs == MsPerSecond \div 2

StartTime == MsPerSecond

Backends == {"fs", "redis", "mongo"}

ChunkTypes == {"metadata", "node", "globalVars"}

Ids == {"A", "B"}

FileKeys == {"f1", "f2"}

DataValues == {"x", "yyy"}

\* JavaScript values of the timestamp fields: a Date object, the string
\* Date.prototype.toISOString gives for it, and undefined
NewDate(t) == [type |-> "Date", time |-> t]

IsoString(t) == [type |-> "string", time |-> t]

Undefined == [type |-> "undefined"]

\* expires: absent, under one second ahead of StartTime (past after one tick),
\* more than one second ahead of it
ExpiresValues == {Undefined, NewDate(StartTime + 400), NewDate(StartTime + 1200)}

CreatedValues == {0, 600}

RedisDefaultTTL == 24 * 60 * 60

MongoDefaultTTL == 24 * 60 * 60

Null == [isNull |-> TRUE]

Absent == [absent |-> TRUE]

\* a call that rejects
Failed == [error |-> TRUE]

Max(a, b) == IF a >= b THEN a ELSE b

----------------------------------------------------------------------------
(* Chunk and its JSON form                                                 *)

Chunk(id, fileKey, type, created, expires, lastAccessed, data, links) ==
  [id |-> id, fileKey |-> fileKey, type |-> type, created |-> created,
   expires |-> expires, lastAccessed |-> lastAccessed, data |-> data,
   links |-> links]

\* JSON.stringify calls a value's toJSON before it calls the replacer:
\* Date.prototype.toJSON gives the ISO string
toJSON(v) == IF v.type = "Date" THEN IsoString(v.time) ELSE v

\* The replacer: value instanceof Date ? {__date: true, value: ISO} : value
Replacer(v) ==
  IF v.type = "Date"
  THEN [type |-> "object", __date |-> TRUE, value |-> IsoString(v.time)]
  ELSE v

\* The reviver: {__date: true, value} becomes new Date(value)
Reviver(v) ==
  IF v.type = "object" THEN NewDate(v.value.time) ELSE v

\* What JSON.stringify(chunk, replacer) writes for one property; an
\* undefined property is left out
JsonProperty(v) == IF v = Undefined THEN Absent ELSE Replacer(toJSON(v))

\* What JSON.parse(text, reviver) gives for one property
ParsedProperty(j) == IF j = Absent THEN Undefined ELSE Reviver(j)

serializeChunk(c) ==
  [id |-> c.id, fileKey |-> c.fileKey, type |-> c.type,
   created |-> JsonProperty(c.created),
   expires |-> JsonProperty(c.expires),
   lastAccessed |-> JsonProperty(c.lastAccessed),
   data |-> c.data, links |-> c.links]

deserializeChunk(j) ==
  [id |-> j.id, fileKey |-> j.fileKey, type |-> j.type,
   created |-> ParsedProperty(j.created),
   expires |-> ParsedProperty(j.expires),
   lastAccessed |-> ParsedProperty(j.lastAccessed),
   data |-> j.data, links |-> j.links]

RECURSIVE SumLen(_)
SumLen(s) == IF s = <<>> THEN 0 ELSE Len(Head(s)) + 3 + SumLen(Tail(s))

\* Characters of one timestamp in the JSON text: the 24 characters of the
\* ISO string in quotes, or the {"__date":true,"value":...} object round it
JsonTimeLen(j) == IF j.type = "object" THEN 50 ELSE 26

\* Characters of the JSON text of a chunk: every key with its quotes, colon
\* and comma, the timestamps, the quoted strings
getChunkSize(c) ==
  LET j == serializeChunk(c) IN
  2 + (5 + Len(c.id) + 2) + (11 + Len(c.fileKey) + 2) + (8 + Len(c.type) + 2)
    + (11 + JsonTimeLen(j.created))
    + (IF j.expires = Absent THEN 0 ELSE 11 + JsonTimeLen(j.expires))
    + (16 + JsonTimeLen(j.lastAccessed)) + (8 + Len(c.data) + 2)
    + (8 + 2 + Max(0, SumLen(c.links) - 1))

EqualModuloLastAccessed(c, d) ==
  /\ c.id = d.id /\ c.fileKey = d.fileKey /\ c.type = d.type
  /\ c.created = d.created /\ c.expires = d.expires
  /\ c.data = d.data /\ c.links = d.links

\* the expiry time is compared whatever the type of chunk.expires
isExpired_ByTime(c, t) == c.expires # Undefined /\ t > c.expires.time

\* chunk.expires ? new Date() > chunk.expires : false.  A Date compared
\* with a string compares with NaN, which is false.
isExpired(c, t) ==
  IF c.expires # Undefined
  THEN IF c.expires.type = "Date" THEN t > c.expires.time ELSE FALSE
  ELSE FALSE

----------------------------------------------------------------------------
(* Filesystem adapter, one caller at a time                                *)

FsStored(files, id) == files[id] # Absent

FsSaveChunk(files, c) == [files EXCEPT ![c.id] = serializeChunk(c)]

FsGetChunkRet(files, id, t) ==
  IF files[id] = Absent THEN Null
  ELSE LET chunk == deserializeChunk(files[id]) IN
       IF isExpired(chunk, t) THEN Null
       ELSE [chunk EXCEPT !.lastAccessed = NewDate(t)]

FsGetChunk(files, id, t) ==
  IF files[id] = Absent THEN files
  ELSE LET chunk == deserializeChunk(files[id]) IN
       IF isExpired(chunk, t) THEN [files EXCEPT ![id] = Absent]
       ELSE FsSaveChunk(files, [chunk EXCEPT !.lastAccessed = NewDate(t)])

\* deleteChunk that reports true although unlink found no file
FsDeleteChunkRet_AlwaysTrue(files, id, fails) == TRUE

\* unlink rejects when the file is missing and when it fails (fails); the
\* catch returns false for both
FsDeleteChunkRet(files, id, fails) == files[id] # Absent /\ ~fails

FsDeleteChunk(files, id, fails) ==
  IF fails THEN files ELSE [files EXCEPT ![id] = Absent]

FsCleanup(files, t) ==
  [id \in DOMAIN files |->
     IF files[id] # Absent /\ isExpired(deserializeChunk(files[id]), t)
     THEN Absent ELSE files[id]]

----------------------------------------------------------------------------
(* Redis adapter. R is the server's state: [keys, index, typeIndex,        *)
(* fileIndex]. A key set with SETEX lives until its expireAt.              *)

RedisState(keys, index, typeIndex, fileIndex) ==
  [keys |-> keys, index |-> index, typeIndex |-> typeIndex, fileIndex |-> fileIndex]

\* GET / EXISTS: a key whose time to live has run out is gone
RedisLive(R, id, t) == R.keys[id] # Absent /\ t < R.keys[id].expireAt

RedisStored(R, id, t) == RedisLive(R, id, t)

\* chunk.expires.getTime() of an expires that is a string: a TypeError
getExpireTimeThrows(c) == c.expires # Undefined /\ c.expires.type # "Date"

\* Math.max(0, Math.floor((expires - now) / 1000)), or config.defaultTTL
getExpireTime(c, t) ==
  IF c.expires # Undefined
  THEN Max(0, (c.expires.time - t) \div MsPerSecond)
  ELSE RedisDefaultTTL

fetchChunk(R, id, t) ==
  IF RedisLive(R, id, t) THEN deserializeChunk(R.keys[id].val) ELSE Null

\* The pipeline SETEX + 3 SADD. SETEX with a time of 0 is rejected by the
\* server; the pipeline goes on and exec() resolves, so the call reports true.
storeChunk(R, c, t) ==
  IF getExpireTimeThrows(c) THEN R
  ELSE
  LET ttl == getExpireTime(c, t) IN
  RedisState(
    IF ttl > 0
    THEN [R.keys EXCEPT ![c.id] = [val |-> serializeChunk(c),
                                   expireAt |-> t + ttl * MsPerSecond]]
    ELSE R.keys,
    R.index \cup {c.id},
    [R.typeIndex EXCEPT ![c.type] = @ \cup {c.id}],
    [R.fileIndex EXCEPT ![c.fileKey] = @ \cup {c.id}])

RedisSaveChunk(R, c, t) == storeChunk(R, c, t)

\* false without a payload; false when the pipeline fails (fails): exec()
\* rejects or the reply to DEL is not 1
RedisDeleteChunkRet(R, id, t, fails) == fetchChunk(R, id, t) # Null /\ ~fails

RedisDeleteChunk(R, id, t, fails) ==
  LET chunk == fetchChunk(R, id, t) IN
  IF chunk = Null \/ fails THEN R
  ELSE RedisState(
         [R.keys EXCEPT ![id] = Absent],
         R.index \ {id},
         [R.typeIndex EXCEPT ![chunk.type] = @ \ {id}],
         [R.fileIndex EXCEPT ![chunk.fileKey] = @ \ {id}])

RedisGetChunkRet(R, id, t) ==
  LET chunk == fetchChunk(R, id, t) IN
  IF chunk = Null THEN Null
  ELSE IF isExpired(chunk, t) THEN Null
  ELSE IF getExpireTimeThrows(chunk) THEN Failed
  ELSE [chunk EXCEPT !.lastAccessed = NewDate(t)]

RedisGetChunk(R, id, t) ==
  LET chunk == fetchChunk(R, id, t) IN
  IF chunk = Null THEN R
  ELSE IF isExpired(chunk, t) THEN RedisDeleteChunk(R, id, t, FALSE)
  ELSE storeChunk(R, [chunk EXCEPT !.lastAccessed = NewDate(t)], t)

RECURSIVE RedisDeleteAll(_, _, _)
RedisDeleteAll(R, ids, t) ==
  IF ids = {} THEN R
  ELSE LET id == CHOOSE x \in ids : TRUE
       IN RedisDeleteAll(RedisDeleteChunk(R, id, t, FALSE), ids \ {id}, t)

\* ids of the global index whose payload is there and expired (or cannot be
\* parsed); an id without payload is skipped
RedisExpiredIds(R, t) ==
  {id \in R.index : fetchChunk(R, id, t) # Null /\ isExpired(fetchChunk(R, id, t), t)}

RedisCleanup(R, t) == RedisDeleteAll(R, RedisExpiredIds(R, t), t)

\* The server drops the keys whose time to live has run out
RedisEvict(keys, t) ==
  [id \in DOMAIN keys |->
     IF keys[id] # Absent /\ t >= keys[id].expireAt THEN Absent ELSE keys[id]]

----------------------------------------------------------------------------
(* Mongo adapter                                                           *)

chunkToDocument(c) ==
  [_id |-> c.id, fileKey |-> c.fileKey, type |-> c.type, created |-> c.created,
   expires |-> c.expires, lastAccessed |-> c.lastAccessed, data |-> c.data,
   links |-> c.links, size |-> Len(c.data) + 2]

documentToChunk(d) ==
  [id |-> d._id, fileKey |-> d.fileKey, type |-> d.type, created |-> d.created,
   expires |-> d.expires, lastAccessed |-> d.lastAccessed, data |-> d.data,
   links |-> d.links]

\* chunk.expires, else now + defaultTTL seconds when defaultTTL > 0
MongoGetExpireTime(c, t) ==
  IF c.expires # Undefined THEN c.expires
  ELSE IF MongoDefaultTTL > 0 THEN NewDate(t + MongoDefaultTTL * MsPerSecond)
  ELSE Undefined

\* chunk.expires < new Date()
MongoIsExpired(c, t) == IF c.expires = Undefined THEN FALSE ELSE c.expires.time < t

MongoStored(docs, id) == docs[id] # Absent

MongoSaveChunk(docs, c, t) ==
  [docs EXCEPT ![c.id] =
     chunkToDocument([c EXCEPT !.expires = MongoGetExpireTime(c, t)])]

MongoGetChunkRet(docs, id, t) ==
  IF docs[id] = Absent THEN Null
  ELSE LET chunk == documentToChunk(docs[id]) IN
       IF MongoIsExpired(chunk, t) THEN Null
       ELSE [chunk EXCEPT !.lastAccessed = NewDate(t)]

\* getChunk awaits neither deleteChunk (expired) nor updateLastAccessed
MongoGetChunkIssued(docs, id, t) ==
  IF docs[id] = Absent THEN {}
  ELSE IF MongoIsExpired(documentToChunk(docs[id]), t)
       THEN {[cmd |-> "deleteOne", id |-> id, lastAccessed |-> Undefined]}
       ELSE {[cmd |-> "updateOne", id |-> id, lastAccessed |-> NewDate(t)]}

MongoDeleteChunkRet(docs, id) == docs[id] # Absent

MongoDeleteChunk(docs, id) == [docs EXCEPT ![id] = Absent]

updateLastAccessed(docs, id, t) ==
  IF docs[id] = Absent THEN docs ELSE [docs EXCEPT ![id].lastAccessed = t]

\* deleteMany({expires: {$lt: now}})
MongoCleanup(docs, t) ==
  [id \in DOMAIN docs |->
     IF docs[id] # Absent /\ docs[id].expires # Undefined /\ docs[id].expires.time < t
     THEN Absent ELSE docs[id]]

MongoApply(docs, c) ==
  IF c.cmd = "deleteOne" THEN MongoDeleteChunk(docs, c.id)
  ELSE updateLastAccessed(docs, c.id, c.lastAccessed)

----------------------------------------------------------------------------
(* The adapters behind the StorageAdapter interface, one call at a time    *)

CurR == RedisState(redisKeys, redisIndex, redisTypeIndex, redisFileIndex)

StoredIn(b, files, R, docs, id, t) ==
  CASE b = "fs" -> FsStored(files, id)
    [] b = "redis" -> RedisStored(R, id, t)
    [] b = "mongo" -> MongoStored(docs, id)

Stored(id) == StoredIn(backend, fsFiles, CurR, mongoDocs, id, now)

\* the chunk's expires time, as a Date or as its ISO string, is earlier than t
ExpiresBefore(c, t) == c.expires # Undefined /\ c.expires.time < t

\* The chunk the backend holds for id, as the adapter reads it back
StoredChunk(id) ==
  CASE backend = "fs" -> deserializeChunk(fsFiles[id])
    [] backend = "redis" -> deserializeChunk(redisKeys[id].val)
    [] backend = "mongo" -> documentToChunk(mongoDocs[id])

SetStore(files, R, docs, inFlight) ==
  /\ fsFiles' = files
  /\ redisKeys' = R.keys
  /\ redisIndex' = R.index
  /\ redisTypeIndex' = R.typeIndex
  /\ redisFileIndex' = R.fileIndex
  /\ mongoDocs' = docs
  /\ mongoInFlight' = inFlight

NoChunk == [noChunk |-> TRUE]

\* arg: the chunk saveChunk was given, the filter listChunks was given
Op(op, id, arg, ret, pre, post, prevSaved, preExpired) ==
  [op |-> op, id |-> id, arg |-> arg, ret |-> ret, time |-> now,
   pre |-> pre, post |-> post, prevSaved |-> prevSaved, preExpired |-> preExpired]

\* The chunks callers save: lastAccessed = created, expires > created
StoreChunks ==
  {Chunk(id, IF id = "A" THEN "f1" ELSE "f2", IF id = "A" THEN "node" ELSE "metadata",
         NewDate(0), ex, NewDate(0), d, <<>>) :
     id \in Ids, ex \in ExpiresValues, d \in DataValues}

InitStore ==
  /\ backend \in Backends
  /\ now = StartTime
  /\ fsFiles = [id \in Ids |-> Absent]
  /\ redisKeys = [id \in Ids |-> Absent]
  /\ redisIndex = {}
  /\ redisTypeIndex = [ty \in ChunkTypes |-> {}]
  /\ redisFileIndex = [fk \in FileKeys |-> {}]
  /\ mongoDocs = [id \in Ids |-> Absent]
  /\ mongoInFlight = {}
  /\ last = Op("none", "", NoChunk, Null, FALSE, FALSE, NoChunk, FALSE)

SaveChunk(c) ==
  LET files == IF backend = "fs" THEN FsSaveChunk(fsFiles, c) ELSE fsFiles
      R == IF backend = "redis" THEN RedisSaveChunk(CurR, c, now) ELSE CurR
      docs == IF backend = "mongo" THEN MongoSaveChunk(mongoDocs, c, now) ELSE mongoDocs
  IN /\ SetStore(files, R, docs, mongoInFlight)
     /\ last' = Op("saveChunk", c.id, c, Null, Stored(c.id),
                   StoredIn(backend, files, R, docs, c.id, now), NoChunk, FALSE)
     /\ UNCHANGED <<backend, now, nonStoreVars>>

GetChunkRet(id) ==
  CASE backend = "fs" -> FsGetChunkRet(fsFiles, id, now)
    [] backend = "redis" -> RedisGetChunkRet(CurR, id, now)
    [] backend = "mongo" -> MongoGetChunkRet(mongoDocs, id, now)

GetChunk(id) ==
  LET files == IF backend = "fs" THEN FsGetChunk(fsFiles, id, now) ELSE fsFiles
      R == IF backend = "redis" THEN RedisGetChunk(CurR, id, now) ELSE CurR
      inFlight == IF backend = "mongo"
                  THEN mongoInFlight \cup MongoGetChunkIssued(mongoDocs, id, now)
                  ELSE mongoInFlight
  IN /\ Cardinality(inFlight) <= MaxInFlight
     /\ SetStore(files, R, mongoDocs, inFlight)
     /\ last' = Op("getChunk", id, NoChunk, GetChunkRet(id), Stored(id),
                   StoredIn(backend, files, R, mongoDocs, id, now),
                   IF last.op = "saveChunk" /\ last.id = id THEN last.arg ELSE NoChunk,
                   Stored(id) /\ ExpiresBefore(StoredChunk(id), now))
     /\ UNCHANGED <<backend, now, nonStoreVars>>

DeleteChunkRet(id, fails) ==
  CASE backend = "fs" -> FsDeleteChunkRet(fsFiles, id, fails)
    [] backend = "redis" -> RedisDeleteChunkRet(CurR, id, now, fails)
    [] backend = "mongo" -> MongoDeleteChunkRet(mongoDocs, id)

\* fails: the delete command (unlink, the Redis pipeline) fails.  The
\* filesystem and Redis adapters catch that and return false; the Mongo
\* adapter has no catch, its call rejects and returns nothing.
DeleteChunk(id, fails) ==
  LET files == IF backend = "fs" THEN FsDeleteChunk(fsFiles, id, fails) ELSE fsFiles
      R == IF backend = "redis" THEN RedisDeleteChunk(CurR, id, now, fails) ELSE CurR
      docs == IF backend = "mongo" THEN MongoDeleteChunk(mongoDocs, id) ELSE mongoDocs
  IN /\ fails => backend # "mongo"
     /\ SetStore(files, R, docs, mongoInFlight)
     /\ last' = Op("deleteChunk", id, NoChunk, DeleteChunkRet(id, fails), Stored(id),
                   StoredIn(backend, files, R, docs, id, now), NoChunk, FALSE)
     /\ UNCHANGED <<backend, now, nonStoreVars>>

\* ids stored with an expires earlier than now
ExpiredStored ==
  {id \in Ids : Stored(id) /\ ExpiresBefore(StoredChunk(id), now)}

Cleanup ==
  LET files == IF backend = "fs" THEN FsCleanup(fsFiles, now) ELSE fsFiles
      R == IF backend = "redis" THEN RedisCleanup(CurR, now) ELSE CurR
      docs == IF backend = "mongo" THEN MongoCleanup(mongoDocs, now) ELSE mongoDocs
  IN /\ SetStore(files, R, docs, mongoInFlight)
     /\ last' = Op("cleanup", "", NoChunk, Null, ExpiredStored # {}, FALSE, NoChunk, FALSE)
     /\ UNCHANGED <<backend, now, nonStoreVars>>

\* A command Mongo was sent without await takes effect
MongoComplete(c) ==
  /\ c \in mongoInFlight
  /\ mongoDocs' = MongoApply(mongoDocs, c)
  /\ mongoInFlight' = mongoInFlight \ {c}
  /\ last' = Op("complete", c.id, NoChunk, Null, FALSE, FALSE, NoChunk, FALSE)
  /\ UNCHANGED <<backend, now, fsFiles, redisKeys, redisIndex, redisTypeIndex,
                 redisFileIndex, nonStoreVars>>

Tick ==
  /\ now < StartTime + MaxTicks * TickMs
  /\ now' = now + TickMs
  /\ redisKeys' = RedisEvict(redisKeys, now')
  /\ last' = Op("tick", "", NoChunk, Null, FALSE, FALSE, NoChunk, FALSE)
  /\ UNCHANGED <<backend, fsFiles, redisIndex, redisTypeIndex, redisFileIndex,
                 mongoDocs, mongoInFlight, nonStoreVars>>

\* The concurrent callers of the filesystem adapter are not running
FsIdle ==
  /\ useLocks = FALSE
  /\ disk = [chunk |-> Absent, tmp |-> Absent, lock |-> Absent, lockTmp |-> Absent]
  /\ fp = <<>>

\* The Redis adapter as constructed, with no caller
ConnIdle ==
  /\ rconn = [client |-> 0, connected |-> FALSE, connecting |-> 0,
              attempts |-> <<>>, timers |-> {}, quit |-> {}]
  /\ rcall = <<>>
  /\ mgr = <<>>
  /\ ck = <<>>
  /\ graph = <<>>
  /\ mcp = <<>>

Init == InitStore /\ FsIdle /\ ConnIdle

Next ==
  \/ \E c \in StoreChunks : SaveChunk(c)
  \/ \E id \in Ids : GetChunk(id)
  \/ \E id \in Ids, fails \in BOOLEAN : DeleteChunk(id, fails)
  \/ Cleanup
  \/ \E c \in mongoInFlight : MongoComplete(c)
  \/ Tick

Spec == Init /\ [][Next]_vars

----------------------------------------------------------------------------
(* Filesystem adapter, concurrent callers of one chunk id.  Every awaited  *)
(* file system call is one step; fs.renameSync is a step of its own, as    *)
(* other callers' file system calls complete between the unlink and it.    *)

MaxFsTicks == 1

Procs == {"p1", "p2"}

LockTimeout == 30000

\* what the concurrent filesystem callers leave alone
nonFsVars == <<backend, fsFiles, redisKeys, redisIndex, redisTypeIndex,
               redisFileIndex, mongoDocs, mongoInFlight, last, connVars, restVars>>

\* The chunks the concurrent callers save under the one id
FsChunks ==
  {Chunk("A", "f1", "node", NewDate(0), Undefined, NewDate(0), "x", <<>>),
   Chunk("A", "f1", "node", NewDate(0), NewDate(StartTime + 400), NewDate(0), "yyy", <<>>)}

IdleFrame ==
  [op |-> "none", arg |-> NoChunk, pc |-> "idle", ctx |-> "none",
   inner |-> FALSE, ictx |-> "none", file |-> "chunk", buf |-> Absent,
   val |-> NoChunk, ret |-> Null, thrown |-> FALSE, clean |-> FALSE]

\* <path>.tmp of safeWriteFile
tempPath(file) == IF file = "lock" THEN "lockTmp" ELSE "tmp"

\* withLock runs for the call itself and again for the saveChunk that
\* getChunk makes; CurCtx is how the withLock now running holds the lock
CurCtx(f) == IF f.inner THEN f.ictx ELSE f.ctx

SetCtx(f, c) == IF f.inner THEN [f EXCEPT !.ictx = c] ELSE [f EXCEPT !.ctx = c]

\* the chunk the saveChunk now running was given
SavingArg(f) == IF f.inner THEN f.val ELSE f.arg

\* first file system call of operation()
BodyStart(f) ==
  IF f.inner \/ f.op = "saveChunk" THEN "sw_write"
  ELSE IF f.op = "getChunk" THEN "gt_read" ELSE "dl_unlink"

\* operation() is called, holding the lock ("locked"), after acquireLock
\* found the lock held and not stale ("held"), after acquireLock's own
\* write failed or the first run rejected ("fallback"), or with locks off
EnterBody(f, c) ==
  [SetCtx(f, c) EXCEPT !.pc = BodyStart(f), !.file = "chunk", !.buf = Absent]

\* the call returns to its caller
Finish(f, r) == [IdleFrame EXCEPT !.op = f.op, !.ret = r, !.clean = f.clean]

RECURSIVE Return(_, _)
\* withLock's operation() resolved with r: release the lock when held
BodyDone(f, r) ==
  IF CurCtx(f) = "locked"
  THEN [f EXCEPT !.pc = "release", !.ret = r, !.thrown = FALSE]
  ELSE Return(f, r)

\* withLock resolves with r: the call returns, or the saveChunk inside
\* getChunk has resolved and getChunk's operation() returns the chunk
Return(f, r) ==
  IF f.inner
  THEN BodyDone([f EXCEPT !.inner = FALSE, !.ictx = "none"], f.val)
  ELSE Finish(f, r)

\* withLock rejects: the call rejects, or getChunk's catch returns null
Propagate(f) ==
  IF f.inner
  THEN BodyDone([f EXCEPT !.inner = FALSE, !.ictx = "none"], Null)
  ELSE Finish(f, Failed)

\* withLock's operation() rejected: with the lock held, release it and
\* run operation() again from the catch
BodyThrow(f) ==
  IF CurCtx(f) = "locked"
  THEN [f EXCEPT !.pc = "release", !.thrown = TRUE]
  ELSE Propagate(f)

withLock(f) ==
  IF ~useLocks THEN EnterBody(f, "nolock") ELSE [f EXCEPT !.pc = "acq_stat"]

\* safeWriteFile resolved: acquireLock returns true, or saveChunk's body ends
SwDone(f) == IF f.file = "lock" THEN EnterBody(f, "locked") ELSE BodyDone(f, Null)

\* safeWriteFile rejected: acquireLock returns false and withLock runs
\* operation() without the lock, or saveChunk's body rejects
SwThrow(f) == IF f.file = "lock" THEN EnterBody(f, "fallback") ELSE BodyThrow(f)

Step(p, f, d) ==
  /\ fp' = [fp EXCEPT ![p] = f]
  /\ disk' = d
  /\ UNCHANGED <<useLocks, now, nonFsVars>>

\* a getChunk that starts now reads a stored, unexpired chunk unless a
\* deletion or an expiry eviction is under way
CleanStart(p) ==
  /\ disk["chunk"] # Absent
  /\ ~isExpired(deserializeChunk(disk["chunk"]), now)
  /\ \A q \in Procs \ {p} : fp[q].op # "deleteChunk" /\ fp[q].pc # "gt_unlink"

StartSave(p, c) ==
  /\ fp[p].pc = "idle"
  /\ Step(p, withLock([IdleFrame EXCEPT !.op = "saveChunk", !.arg = c]), disk)

StartGet(p) ==
  /\ fp[p].pc = "idle"
  /\ Step(p, withLock([IdleFrame EXCEPT !.op = "getChunk", !.clean = CleanStart(p)]),
          disk)

StartDelete(p) ==
  /\ fp[p].pc = "idle"
  /\ fp' = [q \in Procs |->
              IF q = p THEN withLock([IdleFrame EXCEPT !.op = "deleteChunk"])
              ELSE [fp[q] EXCEPT !.clean = FALSE]]
  /\ UNCHANGED <<useLocks, disk, now, nonFsVars>>

\* acquireLock: stat of the lock file
AcqStat(p) ==
  /\ fp[p].pc = "acq_stat"
  /\ Step(p, IF disk["lock"] = Absent \/ now - disk["lock"].mtime > LockTimeout
             THEN [fp[p] EXCEPT !.pc = "sw_write", !.file = "lock"]
             ELSE EnterBody(fp[p], "held"),
          disk)

\* safeWriteFile: writeFile(tempPath, data)
SwWrite(p) ==
  /\ fp[p].pc = "sw_write"
  /\ Step(p, [fp[p] EXCEPT !.pc = "sw_unlink"],
          [disk EXCEPT ![tempPath(fp[p].file)] =
             IF fp[p].file = "lock" THEN [mtime |-> now]
             ELSE serializeChunk(SavingArg(fp[p]))])

\* safeWriteFile: unlink(filePath), a missing file ignored
SwUnlink(p) ==
  /\ fp[p].pc = "sw_unlink"
  /\ Step(p, [fp[p] EXCEPT !.pc = "sw_rename"], [disk EXCEPT ![fp[p].file] = Absent])

\* safeWriteFile: fs.renameSync(tempPath, filePath)
SwRename(p) ==
  /\ fp[p].pc = "sw_rename"
  /\ LET tmp == tempPath(fp[p].file) IN
     IF disk[tmp] # Absent
     THEN Step(p, SwDone(fp[p]), [disk EXCEPT ![fp[p].file] = disk[tmp], ![tmp] = Absent])
     ELSE Step(p, [fp[p] EXCEPT !.pc = "sw_fbread"], disk)

\* safeWriteFile, rename failed: readFile(tempPath)
SwFbRead(p) ==
  /\ fp[p].pc = "sw_fbread"
  /\ LET tmp == tempPath(fp[p].file) IN
     Step(p, IF disk[tmp] = Absent THEN SwThrow(fp[p])
             ELSE [fp[p] EXCEPT !.pc = "sw_fbwrite", !.buf = disk[tmp]],
          disk)

\* safeWriteFile, rename failed: writeFile(filePath, content)
SwFbWrite(p) ==
  /\ fp[p].pc = "sw_fbwrite"
  /\ Step(p, [fp[p] EXCEPT !.pc = "sw_fbunlink"],
          [disk EXCEPT ![fp[p].file] =
             IF fp[p].file = "lock" THEN [mtime |-> now] ELSE fp[p].buf])

\* safeWriteFile, rename failed: unlink(tempPath), errors ignored
SwFbUnlink(p) ==
  /\ fp[p].pc = "sw_fbunlink"
  /\ Step(p, SwDone(fp[p]), [disk EXCEPT ![tempPath(fp[p].file)] = Absent])

\* getChunk's operation(): safeReadFile, then the expiry check and the
\* saveChunk that writes lastAccessed back
GtRead(p) ==
  /\ fp[p].pc = "gt_read"
  /\ Step(p, IF disk["chunk"] = Absent THEN BodyDone(fp[p], Null)
             ELSE LET chunk == deserializeChunk(disk["chunk"]) IN
                  IF isExpired(chunk, now) THEN [fp[p] EXCEPT !.pc = "gt_unlink"]
                  ELSE withLock([fp[p] EXCEPT !.inner = TRUE,
                                              !.val = [chunk EXCEPT !.lastAccessed = NewDate(now)]]),
          disk)

\* getChunk's operation(): unlink of an expired chunk, errors ignored.
\* No caller gets here: isExpired is false for every chunk that
\* deserializeChunk gives, so this is not a step of NextFS.
GtUnlink(p) ==
  /\ fp[p].pc = "gt_unlink"
  /\ Step(p, BodyDone(fp[p], Null), [disk EXCEPT !["chunk"] = Absent])

\* deleteChunk's operation(): unlink, false when it fails
DlUnlink(p) ==
  /\ fp[p].pc = "dl_unlink"
  /\ Step(p, BodyDone(fp[p], disk["chunk"] # Absent), [disk EXCEPT !["chunk"] = Absent])

\* withLock's finally: releaseLock, then the catch when operation() rejected
Release(p) ==
  /\ fp[p].pc = "release"
  /\ Step(p, IF fp[p].thrown THEN EnterBody([fp[p] EXCEPT !.thrown = FALSE], "fallback")
             ELSE Return(fp[p], fp[p].ret),
          [disk EXCEPT !["lock"] = Absent])

\* time passes: locks go stale and the chunk with an expires time expires
FsTick ==
  /\ now < StartTime + MaxFsTicks * (LockTimeout + 1)
  /\ now' = now + LockTimeout + 1
  /\ fp' = [q \in Procs |-> [fp[q] EXCEPT !.clean = FALSE]]
  /\ UNCHANGED <<useLocks, disk, nonFsVars>>

InitFS ==
  /\ InitStore
  /\ backend = "fs"
  /\ useLocks \in BOOLEAN
  /\ disk = [chunk |-> Absent, tmp |-> Absent, lock |-> Absent, lockTmp |-> Absent]
  /\ fp = [p \in Procs |-> IdleFrame]
  /\ ConnIdle

NextFS ==
  \/ \E p \in Procs, c \in FsChunks : StartSave(p, c)
  \/ \E p \in Procs : StartGet(p)
  \/ \E p \in Procs : StartDelete(p)
  \/ \E p \in Procs : AcqStat(p)
  \/ \E p \in Procs : SwWrite(p)
  \/ \E p \in Procs : SwUnlink(p)
  \/ \E p \in Procs : SwRename(p)
  \/ \E p \in Procs : SwFbRead(p)
  \/ \E p \in Procs : SwFbWrite(p)
  \/ \E p \in Procs : SwFbUnlink(p)
  \/ \E p \in Procs : GtRead(p)
  \/ \E p \in Procs : DlUnlink(p)
  \/ \E p \in Procs : Release(p)
  \/ FsTick

SpecFS == InitFS /\ [][NextFS]_vars

----------------------------------------------------------------------------
(* listChunks.  A filter is a record of the properties the caller gave.    *)

DefaultLimit == 100

createDefaultFilter ==
  [includeExpired |-> FALSE, limit |-> DefaultLimit, sortBy |-> "created",
   sortDirection |-> "desc"]

\* {...createDefaultFilter(), ...filter}
mergeWithDefaultFilter(filter) ==
  [k \in DOMAIN createDefaultFilter \cup DOMAIN filter |->
     IF k \in DOMAIN filter THEN filter[k] ELSE createDefaultFilter[k]]

Has(f, k) == k \in DOMAIN f

\* The relational operators of JavaScript on timestamps: two Dates compare
\* by time, two ISO strings compare as their times do, a Date and a string
\* compare with NaN, which makes every comparison false
JsLess(a, b) == a.type = b.type /\ a.time < b.time

JsLessEq(a, b) == a.type = b.type /\ a.time <= b.time

\* String.prototype.localeCompare on the strings of the model
StrRank(str) ==
  CASE str = "A" -> 1 [] str = "B" -> 2 [] str = "f1" -> 3 [] str = "f2" -> 4
    [] str = "globalVars" -> 5 [] str = "metadata" -> 6 [] str = "node" -> 7

localeCompare(a, b) == StrRank(a) - StrRank(b)

Summary(chunk, size) ==
  [id |-> chunk.id, fileKey |-> chunk.fileKey, type |-> chunk.type,
   created |-> chunk.created, size |-> size]

\* the orders in which a directory listing, SMEMBERS or find() can give S
Orders(S) ==
  {r \in [1..Cardinality(S) -> S] : \A i, j \in DOMAIN r : r[i] = r[j] => i = j}

\* the filesystem adapter's test that skips a chunk file
FsSkips(chunk, f, t) ==
  \/ Has(f, "fileKey") /\ chunk.fileKey # f.fileKey
  \/ Has(f, "type") /\ chunk.type # f.type
  \/ Has(f, "olderThan") /\ JsLessEq(f.olderThan, chunk.created)
  \/ Has(f, "newerThan") /\ JsLessEq(chunk.created, f.newerThan)
  \/ ~f.includeExpired /\ isExpired(chunk, t)

FsSummaries(files, f, t) ==
  {Summary(deserializeChunk(files[id]), getChunkSize(deserializeChunk(files[id]))) :
     id \in {i \in DOMAIN files :
               files[i] # Absent /\ ~FsSkips(deserializeChunk(files[i]), f, t)}}

\* a.created.getTime() of a created that is a string: a TypeError
FsCompareThrows(a, b, f) == f.sortBy = "created" /\ a.created.type # "Date"

\* the comparator given to Array.prototype.sort
FsCompare(a, b, f) ==
  IF f.sortBy = "created"
  THEN IF f.sortDirection = "asc" THEN a.created.time - b.created.time
       ELSE b.created.time - a.created.time
  ELSE IF f.sortBy = "size"
  THEN IF f.sortDirection = "asc" THEN a.size - b.size ELSE b.size - a.size
  ELSE localeCompare(a.id, b.id)

\* result.slice(0, limit) when limit is a positive number
FsLimit(r, f) ==
  IF f.limit > 0 /\ f.limit < Len(r) THEN SubSeq(r, 1, f.limit) ELSE r

\* What the filesystem listChunks can return: the comparator is called once
\* there are two summaries, and its TypeError ends in the catch that
\* returns []; the sort is stable, over the order the files were read in
FsListChunks(files, filter, t) ==
  LET f == mergeWithDefaultFilter(filter)
      S == FsSummaries(files, f, t)
  IN
  IF Cardinality(S) >= 2 /\ \E a, b \in S : FsCompareThrows(a, b, f)
  THEN {<<>>}
  ELSE {FsLimit(r, f) :
          r \in {o \in Orders(S) :
                   \A i, j \in DOMAIN o : i < j => FsCompare(o[i], o[j], f) <= 0}}

\* SMEMBERS of the per-file index, else of the per-type index, else of the
\* global index
RedisListIds(R, f) ==
  IF Has(f, "fileKey") THEN R.fileIndex[f.fileKey]
  ELSE IF Has(f, "type") THEN R.typeIndex[f.type]
  ELSE R.index

\* the chunks of those ids that have a payload and pass the date filters
RedisListed(R, f, t) ==
  {chunk \in {fetchChunk(R, id, t) : id \in {i \in RedisListIds(R, f) : RedisLive(R, i, t)}} :
     /\ Has(f, "olderThan") => JsLess(chunk.created, f.olderThan)
     /\ Has(f, "newerThan") => JsLess(f.newerThan, chunk.created)}

\* the ids listChunks sends deleteChunk for, without awaiting it
RedisListExpired(R, filter, t) ==
  {chunk.id : chunk \in {c \in RedisListed(R, mergeWithDefaultFilter(filter), t) :
                           isExpired(c, t)}}

RedisListChunks(R, filter, t) ==
  LET f == mergeWithDefaultFilter(filter) IN
  Orders({Summary(chunk, getChunkSize(chunk)) :
            chunk \in {c \in RedisListed(R, f, t) : ~isExpired(c, t)}})

\* find({fileKey, type}) and the summaries of the documents found
MongoListChunks(docs, filter) ==
  LET f == mergeWithDefaultFilter(filter) IN
  Orders({Summary(documentToChunk(docs[id]), docs[id].size) :
            id \in {i \in DOMAIN docs :
                      /\ docs[i] # Absent
                      /\ Has(f, "fileKey") => docs[i].fileKey = f.fileKey
                      /\ Has(f, "type") => docs[i].type = f.type}})

ListChunksRet(filter) ==
  CASE backend = "fs" -> FsListChunks(fsFiles, filter, now)
    [] backend = "redis" -> RedisListChunks(CurR, filter, now)
    [] backend = "mongo" -> MongoListChunks(mongoDocs, filter)

\* The filters callers list with
ListFilters ==
  {<<>>, [fileKey |-> "f1"], [type |-> "metadata"],
   [fileKey |-> "f1", type |-> "metadata"],
   [olderThan |-> NewDate(600)], [newerThan |-> NewDate(0)],
   [includeExpired |-> TRUE], [limit |-> 0], [limit |-> 1],
   [limit |-> 1, sortBy |-> "size"]}
  \cup {[sortBy |-> by, sortDirection |-> dir] :
          by \in {"id", "fileKey", "type", "created", "size"}, dir \in {"asc", "desc"}}

\* The chunks callers save before they list: the later one has more data
ListChunkValues ==
  {Chunk(id, IF id = "A" THEN "f1" ELSE "f2", IF id = "A" THEN "node" ELSE "metadata",
         NewDate(cr), ex, NewDate(cr), IF cr = 0 THEN "x" ELSE "yyy", <<>>) :
     id \in Ids, cr \in CreatedValues, ex \in {Undefined, NewDate(StartTime + 400)}}

ListChunks(filter) ==
  \E r \in ListChunksRet(filter) :
     /\ LET R == IF backend = "redis"
                 THEN RedisDeleteAll(CurR, RedisListExpired(CurR, filter, now), now)
                 ELSE CurR
        IN SetStore(fsFiles, R, mongoDocs, mongoInFlight)
     /\ last' = Op("listChunks", "", filter, r, FALSE, FALSE, NoChunk, FALSE)
     /\ UNCHANGED <<backend, now, nonStoreVars>>

NextList ==
  \/ \E c \in ListChunkValues : SaveChunk(c)
  \/ \E filter \in ListFilters : ListChunks(filter)
  \/ Tick

SpecList == Init /\ [][NextList]_vars

----------------------------------------------------------------------------
(* Claims on the concurrent filesystem callers                             *)

\* the call of p is inside the file-modifying part of saveChunk/deleteChunk
InWriteSection(p) ==
  /\ fp[p].op \in {"saveChunk", "deleteChunk"}
  /\ \/ fp[p].pc = "dl_unlink"
     \/ fp[p].file = "chunk"
        /\ fp[p].pc \in {"sw_write", "sw_unlink", "sw_rename", "sw_fbread",
                         "sw_fbwrite", "sw_fbunlink"}

\* C1 as stated: a getChunk that started on a stored, unexpired chunk and
\* ran beside saveChunk calls only (no deletion, no expiry) returns one of
\* the saved chunks in full, as a lone getChunk reads it, never null.
C1_ConcurrentGetNeverNull ==
  \A p \in Procs :
     (fp # <<>> /\ fp[p].op = "getChunk" /\ fp[p].pc = "idle" /\ fp[p].clean) =>
        /\ fp[p].ret # Null
        /\ \E c \in FsChunks :
              EqualModuloLastAccessed(fp[p].ret, deserializeChunk(serializeChunk(c)))

\* C2 as stated: with useLocks = true the file-modifying sections of two
\* saveChunk/deleteChunk calls for the same id never overlap.
C2_WriteSectionsNeverOverlap ==
  (fp # <<>> /\ useLocks) =>
     \A p, q \in Procs : (p # q) => ~(InWriteSection(p) /\ InWriteSection(q))

----------------------------------------------------------------------------
(* Claims on listChunks                                                    *)

\* the value a summary is ordered by
SortKey(summary, by) ==
  CASE by = "id" -> StrRank(summary.id)
    [] by = "fileKey" -> StrRank(summary.fileKey)
    [] by = "type" -> StrRank(summary.type)
    [] by = "created" -> summary.created.time
    [] by = "size" -> summary.size

\* C8 as stated: every summary listChunks returns is of a chunk that meets
\* every predicate of the merged filter: fileKey, type, created before
\* olderThan, created after newerThan, unexpired unless includeExpired.
C8_ListMeetsEveryPredicate ==
  last.op = "listChunks" =>
     LET f == mergeWithDefaultFilter(last.arg) IN
     \A i \in DOMAIN last.ret :
        LET summary == last.ret[i] IN
        /\ Has(f, "fileKey") => summary.fileKey = f.fileKey
        /\ Has(f, "type") => summary.type = f.type
        /\ Has(f, "olderThan") => summary.created.time < f.olderThan.time
        /\ Has(f, "newerThan") => summary.created.time > f.newerThan.time
        /\ ~f.includeExpired => ~ExpiresBefore(StoredChunk(summary.id), last.time)

\* C9 as stated: the summaries listChunks returns are ordered by the merged
\* filter's sortBy, ascending or descending as its sortDirection says.
C9_ListOrdered ==
  last.op = "listChunks" =>
     LET f == mergeWithDefaultFilter(last.arg) IN
     \A i, j \in DOMAIN last.ret :
        i < j =>
          IF f.sortDirection = "asc"
          THEN SortKey(last.ret[i], f.sortBy) <= SortKey(last.ret[j], f.sortBy)
          ELSE SortKey(last.ret[i], f.sortBy) >= SortKey(last.ret[j], f.sortBy)

\* C10 as stated: listChunks returns at most limit summaries, limit being
\* 100 when the caller gave none.
C10_ListAtMostLimit ==
  last.op = "listChunks" => Len(last.ret) <= mergeWithDefaultFilter(last.arg).limit

----------------------------------------------------------------------------
(* Claims on the sequential store                                          *)

\* C3 as stated: getChunk of a stored chunk whose expires is earlier than now
\* returns null, and when it returns the payload is gone from the backend.
C3_ExpiredGetRemovesPayload ==
  (last.op = "getChunk" /\ last.preExpired) => (last.ret = Null /\ ~last.post)

\* C4 as stated: on every adapter, getChunk(c.id) right after saveChunk(c)
\* of an unexpired chunk returns c in every field but lastAccessed, expires
\* staying absent when c had none.
C4_SaveThenGetReturnsChunk ==
  (last.op = "getChunk" /\ last.prevSaved # NoChunk
     /\ ~isExpired(last.prevSaved, last.time)) =>
       /\ last.ret # Null
       /\ last.ret # Failed
       /\ EqualModuloLastAccessed(last.ret, last.prevSaved)

\* C5 as stated: deleteChunk returns true exactly when a chunk with that id
\* was stored before the call and is not stored after it; when it returns
\* false no chunk with that id was stored before the call.
C5_DeleteResult ==
  last.op = "deleteChunk" =>
     /\ (last.ret = TRUE) <=> (last.pre /\ ~last.post)
     /\ (last.ret = FALSE) => ~last.pre

\* C5 amended: deleteChunk returns true exactly when a chunk with that id
\* was stored before the call and is not stored after it; when it returns
\* false either no chunk with that id was stored before the call, or the
\* deletion failed and the chunk is stored as it was.
C5_DeleteTrueIffRemoved ==
  last.op = "deleteChunk" =>
     /\ (last.ret = TRUE) <=> (last.pre /\ ~last.post)
     /\ (last.ret = FALSE) => (~last.pre \/ (last.post /\ Stored(last.id)))

C5_Witness ==
  /\ last.op = "deleteChunk" /\ last.ret = FALSE /\ last.pre /\ Stored(last.id)
  /\ backend = "fs"

\* C6: after cleanup() has run with no writer beside it, no chunk whose
\* expires is earlier than the time cleanup started is still stored.
C6_CleanupLeavesNoExpired ==
  last.op = "cleanup" =>
     \A id \in Ids :
        Stored(id) => ~ExpiresBefore(StoredChunk(id), last.time)

\* C7 as stated: after Redis cleanup() every id in the global, per-type or
\* per-file index set has a stored payload.
C7_CleanupLeavesNoDanglingIndex ==
  (backend = "redis" /\ last.op = "cleanup") =>
     \A id \in redisIndex \cup UNION {redisTypeIndex[ty] : ty \in ChunkTypes}
                          \cup UNION {redisFileIndex[fk] : fk \in FileKeys} :
        RedisStored(CurR, id, now)

----------------------------------------------------------------------------
(* getChunk whose write of the updated lastAccessed fails: writeFile of    *)
(* the temporary file rejects, the Redis pipeline's exec() rejects, the    *)
(* Mongo updateOne rejects.  The store is left as it was.                  *)

\* saveChunk rejects inside getChunk's try; the catch logs and returns null
FsGetChunkWriteFailsRet(files, id, t) ==
  IF files[id] = Absent THEN Null
  ELSE IF isExpired(deserializeChunk(files[id]), t) THEN Null
  ELSE Null

FsGetChunkWriteFails(files, id, t) ==
  IF files[id] = Absent THEN files
  ELSE IF isExpired(deserializeChunk(files[id]), t) THEN [files EXCEPT ![id] = Absent]
  ELSE files

\* storeChunk catches the rejected exec() and returns false, which
\* updateLastAccessed hands on and getChunk does not read; getExpireTime
\* runs before the pipeline and its TypeError is not caught
RedisGetChunkWriteFailsRet(R, id, t) == RedisGetChunkRet(R, id, t)

RedisGetChunkWriteFails(R, id, t) ==
  LET chunk == fetchChunk(R, id, t) IN
  IF chunk = Null THEN R
  ELSE IF isExpired(chunk, t) THEN RedisDeleteChunk(R, id, t, FALSE)
  ELSE R

\* updateLastAccessed(id, now).catch(log): nothing is surfaced
MongoGetChunkWriteFailsRet(docs, id, t) == MongoGetChunkRet(docs, id, t)

MongoGetChunkWriteFailsIssued(docs, id, t) ==
  IF docs[id] = Absent THEN {}
  ELSE IF MongoIsExpired(documentToChunk(docs[id]), t)
       THEN {[cmd |-> "deleteOne", id |-> id, lastAccessed |-> Undefined]}
       ELSE {}

GetChunkWriteFailsRet(id) ==
  CASE backend = "fs" -> FsGetChunkWriteFailsRet(fsFiles, id, now)
    [] backend = "redis" -> RedisGetChunkWriteFailsRet(CurR, id, now)
    [] backend = "mongo" -> MongoGetChunkWriteFailsRet(mongoDocs, id, now)

GetChunkWriteFails(id) ==
  LET files == IF backend = "fs" THEN FsGetChunkWriteFails(fsFiles, id, now) ELSE fsFiles
      R == IF backend = "redis" THEN RedisGetChunkWriteFails(CurR, id, now) ELSE CurR
      inFlight == IF backend = "mongo"
                  THEN mongoInFlight \cup MongoGetChunkWriteFailsIssued(mongoDocs, id, now)
                  ELSE mongoInFlight
  IN /\ Cardinality(inFlight) <= MaxInFlight
     /\ SetStore(files, R, mongoDocs, inFlight)
     /\ last' = Op("getChunkWriteFails", id, NoChunk, GetChunkWriteFailsRet(id),
                   Stored(id), StoredIn(backend, files, R, mongoDocs, id, now),
                   NoChunk, Stored(id) /\ ExpiresBefore(StoredChunk(id), now))
     /\ UNCHANGED <<backend, now, nonStoreVars>>

NextFault ==
  \/ \E c \in StoreChunks : SaveChunk(c)
  \/ \E id \in Ids : GetChunkWriteFails(id)
  \/ \E c \in mongoInFlight : MongoComplete(c)
  \/ Tick

SpecFault == Init /\ [][NextFault]_vars

\* C11 as stated: getChunk of a stored, unexpired chunk whose write of the
\* updated lastAccessed fails still returns the chunk and rejects nothing.
C11_WriteBackFailureReturnsChunk ==
  (last.op = "getChunkWriteFails" /\ last.pre /\ ~last.preExpired) =>
     (last.ret # Null /\ last.ret # Failed)

----------------------------------------------------------------------------
(* Claims on the lock fallback of the filesystem adapter                   *)

\* C12 as stated: a saveChunk or deleteChunk that found the lock held by
\* another writer and not stale runs its operation without the lock and
\* completes: the call does not reject.
C12_HeldLockCallCompletes ==
  [][\A p \in Procs :
       (fp # <<>> /\ fp[p].ctx = "held" /\ fp'[p].pc = "idle") =>
          /\ fp[p].op = "saveChunk" => fp'[p].ret = Null
          /\ fp[p].op = "deleteChunk" => fp'[p].ret \in BOOLEAN]_vars

----------------------------------------------------------------------------
(* Redis adapter: the lazy connection.  rconn.attempts[k] is the promise   *)
(* of the k-th connect that made a client, rconn.client and                *)
(* rconn.connecting name a client and a promise by that index, 0 for null. *)
(* quit() and the assignments after it are one step.                       *)

MaxClients == 2

Callers == {"c1", "c2"}

IdleCall == [pc |-> "idle", phase |-> 0, awaiting |-> 0, ret |-> "none"]

\* the `finally` taking effect after the assignment
connectingAfterAssignment_Cleared(k) == 0

\* this.connecting once `this.connecting = new Promise(executor)` has run
\* for client k: the executor runs first and its `finally` clears the field,
\* then the assignment stores the promise
connectingAfterAssignment(k) == k

\* connect() goes on to make a client
connectMakesClient(c) == ~(c.connected /\ c.client # 0) /\ c.connecting = 0

connect(c) ==
  IF ~connectMakesClient(c) THEN c
  ELSE LET k == Len(c.attempts) + 1 IN
       [c EXCEPT !.client = k, !.attempts = Append(@, "pending"),
                 !.timers = @ \cup {k},
                 !.connecting = connectingAfterAssignment(k)]

\* the promise connect() hands to its caller, 0 when it returns at once
connectReturns(c) ==
  IF c.connected /\ c.client # 0 THEN 0 ELSE connect(c).connecting

\* a caller whose `await this.connect()` has resolved: the public method's
\* own connect (phase 1) is followed by that of fetchChunk/storeChunk
Connected(f) ==
  IF f.phase = 1 THEN [f EXCEPT !.pc = "connect", !.phase = 2, !.awaiting = 0]
  ELSE [f EXCEPT !.pc = "command", !.awaiting = 0]

RcStep(p, f, c) ==
  /\ rcall' = [rcall EXCEPT ![p] = f]
  /\ rconn' = c
  /\ UNCHANGED <<storeVars, fsVars, restVars>>

\* a storage operation is called
RcStart(p) ==
  /\ rcall[p].pc = "idle"
  /\ RcStep(p, [IdleCall EXCEPT !.pc = "connect", !.phase = 1], rconn)

RcConnect(p) ==
  /\ rcall[p].pc = "connect"
  /\ connectMakesClient(rconn) => Len(rconn.attempts) < MaxClients
  /\ LET a == connectReturns(rconn) IN
     RcStep(p, IF a = 0 THEN Connected(rcall[p])
               ELSE [rcall[p] EXCEPT !.pc = "wait", !.awaiting = a],
            connect(rconn))

\* the awaited connect promise has settled
RcAwait(p) ==
  /\ rcall[p].pc = "wait"
  /\ rconn.attempts[rcall[p].awaiting] # "pending"
  /\ RcStep(p, IF rconn.attempts[rcall[p].awaiting] = "resolved"
               THEN Connected(rcall[p])
               ELSE [IdleCall EXCEPT !.ret = "failed"],
            rconn)

\* if (!this.client) throw ...; else the command goes to the client
RcCommand(p) ==
  /\ rcall[p].pc = "command"
  /\ RcStep(p, [IdleCall EXCEPT !.ret = IF rconn.client = 0 THEN "failed" ELSE "ok"],
            rconn)

RcEvent(c) ==
  /\ rconn' = c
  /\ UNCHANGED <<rcall, storeVars, fsVars, restVars>>

\* client k emits 'connect'
RcOnConnect(k) ==
  /\ k \in (1 .. Len(rconn.attempts)) \ rconn.quit
  /\ RcEvent([rconn EXCEPT !.connected = TRUE])

\* client k emits 'ready': resolve() of its promise
RcOnReady(k) ==
  /\ k \in (1 .. Len(rconn.attempts)) \ rconn.quit
  /\ RcEvent([rconn EXCEPT !.connected = TRUE,
                           !.attempts[k] = IF @ = "pending" THEN "resolved" ELSE @])

\* client k emits 'error' or 'close'
RcOnClose(k) ==
  /\ k \in 1 .. Len(rconn.attempts)
  /\ RcEvent([rconn EXCEPT !.connected = FALSE])

\* the connect timeout of client k fires
RcTimeout(k) ==
  /\ k \in rconn.timers
  /\ RcEvent([rconn EXCEPT !.timers = @ \ {k},
                           !.attempts[k] = IF ~rconn.connected /\ @ = "pending"
                                           THEN "rejected" ELSE @])

\* dispose(): disconnect() quits the client and clears the field
RcDispose ==
  /\ rconn.client # 0
  /\ RcEvent([rconn EXCEPT !.quit = @ \cup {rconn.client}, !.client = 0,
                           !.connected = FALSE])

InitConn ==
  /\ InitStore
  /\ backend = "redis"
  /\ FsIdle
  /\ rconn = [client |-> 0, connected |-> FALSE, connecting |-> 0,
              attempts |-> <<>>, timers |-> {}, quit |-> {}]
  /\ rcall = [p \in Callers |-> IdleCall]
  /\ mgr = <<>>
  /\ ck = <<>>
  /\ graph = <<>>
  /\ mcp = <<>>

NextConn ==
  \/ \E p \in Callers : RcStart(p)
  \/ \E p \in Callers : RcConnect(p)
  \/ \E p \in Callers : RcAwait(p)
  \/ \E p \in Callers : RcCommand(p)
  \/ \E k \in 1 .. MaxClients : RcOnConnect(k)
  \/ \E k \in 1 .. MaxClients : RcOnReady(k)
  \/ \E k \in 1 .. MaxClients : RcOnClose(k)
  \/ \E k \in 1 .. MaxClients : RcTimeout(k)
  \/ RcDispose

SpecConn == InitConn /\ [][NextConn]_vars

\* connect promises that have not settled
PendingAttempts == {k \in 1 .. Len(rconn.attempts) : rconn.attempts[k] = "pending"}

\* C13: at most one connect promise is pending at any time, the callers
\* that wait for a connection all wait on that one promise, and the adapter
\* never makes a second client.
C13_SingleConnectAttempt ==
  rcall # <<>> =>
     /\ Cardinality(PendingAttempts) <= 1
     /\ Len(rconn.attempts) <= 1
     /\ \A p, q \in Callers :
           (rcall[p].pc = "wait" /\ rcall[q].pc = "wait") =>
              rcall[p].awaiting = rcall[q].awaiting

\* two operations wait on the one pending connect
C13_Witness ==
  /\ rcall # <<>>
  /\ PendingAttempts = {1}
  /\ \A p \in Callers : rcall[p].pc = "wait" /\ rcall[p].awaiting = 1

----------------------------------------------------------------------------
(* Claims on the Redis time to live                                        *)

\* ceil((expires - t) / 1 second) for an expires after t, else defaultTTL
CeilingTtl(c, t) ==
  IF c.expires # Undefined
  THEN (c.expires.time - t + MsPerSecond - 1) \div MsPerSecond
  ELSE RedisDefaultTTL

\* C14 as stated: Redis saveChunk of a chunk without expires, or with an
\* expires in the future, stores the payload with a time to live of
\* ceil((expires - now) / 1 second), or defaultTTL without expires; the
\* time to live of a chunk whose expires is in the future is at least 1.
C14_RedisTtlIsCeiling ==
  (backend = "redis" /\ last.op = "saveChunk"
     /\ (last.arg.expires = Undefined \/ last.arg.expires.time > last.time)) =>
       /\ redisKeys[last.id] # Absent
       /\ redisKeys[last.id].expireAt =
            last.time + CeilingTtl(last.arg, last.time) * MsPerSecond
       /\ redisKeys[last.id].expireAt >= last.time + MsPerSecond

----------------------------------------------------------------------------
(* StorageManager: the adapter registry and the adapters' cleanup timers.  *)
(* mgr.made[i] is the i-th adapter made: its class and whether its         *)
(* setInterval timer is running; mgr.adapters maps a name to an adapter,   *)
(* 0 for none.                                                             *)

MaxAdapters == 3

AdapterNames == {"fileSystem", "cache"}

AdapterKinds == {"fs", "redis", "mongo"}

\* new XAdapter(config) with the default cleanupInterval: the timer is set
NewAdapter(kind) == [kind |-> kind, interval |-> TRUE, cleanups |-> 0]

\* adapter.dispose(): clearInterval
AdapterDispose(a) == [a EXCEPT !.interval = FALSE]

\* dispose() closes an adapter when it is `instanceof FileSystemAdapter`
ManagerDisposes(a) == a.kind = "fs"

MgrStep(m) ==
  /\ mgr' = m
  /\ UNCHANGED <<storeVars, fsVars, connVars, ck, graph, mcp>>

\* new StorageManager(): the default filesystem adapter is registered
InitManager ==
  /\ InitStore
  /\ backend = "fs"
  /\ FsIdle
  /\ rconn = [client |-> 0, connected |-> FALSE, connecting |-> 0,
              attempts |-> <<>>, timers |-> {}, quit |-> {}]
  /\ rcall = <<>>
  /\ ck = <<>>
  /\ graph = <<>>
  /\ mcp = <<>>
  /\ mgr = [adapters |-> [n \in AdapterNames |-> IF n = "fileSystem" THEN 1 ELSE 0],
            made |-> <<NewAdapter("fs")>>, disposed |-> FALSE]

\* registerAdapter(name, new XAdapter(config)): this.adapters.set
RegisterAdapter(name, kind) ==
  /\ Len(mgr.made) < MaxAdapters
  /\ MgrStep([mgr EXCEPT !.made = Append(@, NewAdapter(kind)),
                         !.adapters[name] = Len(mgr.made) + 1,
                         !.disposed = FALSE])

\* StorageManager.dispose()
ManagerDispose ==
  /\ mgr.made # <<>>
  /\ MgrStep([mgr EXCEPT
                !.made = [i \in DOMAIN mgr.made |->
                            IF i \in {mgr.adapters[n] : n \in AdapterNames}
                               /\ ManagerDisposes(mgr.made[i])
                            THEN AdapterDispose(mgr.made[i]) ELSE mgr.made[i]],
                !.adapters = [n \in AdapterNames |-> 0],
                !.disposed = TRUE])

\* the cleanup timer of adapter i fires: cleanup() runs
IntervalFires(i) ==
  /\ i \in DOMAIN mgr.made
  /\ mgr.made[i].interval
  /\ mgr.made[i].cleanups < 1
  /\ MgrStep([mgr EXCEPT !.made[i].cleanups = @ + 1])

NextManager ==
  \/ \E n \in AdapterNames, k \in AdapterKinds : RegisterAdapter(n, k)
  \/ ManagerDispose
  \/ \E i \in 1 .. MaxAdapters : IntervalFires(i)

SpecManager == InitManager /\ [][NextManager]_vars

\* C15 as stated: once dispose() has returned the registry is empty and no
\* adapter that was registered has its cleanup timer running.
C15_DisposeClosesEveryAdapter ==
  (mgr # <<>> /\ mgr.disposed) =>
     /\ \A n \in AdapterNames : mgr.adapters[n] = 0
     /\ \A i \in DOMAIN mgr.made : ~mgr.made[i].interval

----------------------------------------------------------------------------
(* Chunker.  A node is [ref, id, type, own, extra, image, children]: id is *)
(* "" for a node without id, own the bytes of the properties               *)
(* compressNodeData keeps (children apart), extra the bytes of the others, *)
(* image whether a fill is of type IMAGE.  An array of JSON values takes   *)
(* its brackets, its elements and the commas between them.  links and      *)
(* references are kept as sets: the strategies remove duplicates or build  *)
(* them from ids that differ.  The depth limit of 100 is out of reach.     *)

maxChunkSize == 4096

\* bytes of a {id, name, type, chunkId} reference object
RefSize == 120

\* a path is numbered in base PathBase: the k-th child of the node numbered
\* c is numbered c * PathBase + k
PathBase == 16

RECURSIVE SumSeq(_)
SumSeq(s) == IF s = <<>> THEN 0 ELSE Head(s) + SumSeq(Tail(s))

\* the chunks of the child results are left out of the result
Flatten_Dropped(ss) == <<>>

RECURSIVE Flatten(_)
Flatten(ss) == IF ss = <<>> THEN <<>> ELSE Head(ss) \o Flatten(Tail(ss))

RECURSIVE PushAll(_)
\* references.push(...) of each entry in turn
PushAll(ss) == IF ss = <<>> THEN <<>> ELSE Head(ss) \o PushAll(Tail(ss))

\* JSON bytes of an array whose elements take the bytes in sizes
ArraySize(sizes) == 2 + SumSeq(sizes) + (IF sizes = <<>> THEN 0 ELSE Len(sizes) - 1)

RECURSIVE estimateSize(_)
\* Buffer.byteLength(JSON.stringify(obj)) of a node or a reference object
estimateSize(n) ==
  IF n.ref THEN RefSize
  ELSE n.own + n.extra +
       (IF n.children = <<>> THEN 0
        ELSE ArraySize([i \in DOMAIN n.children |-> estimateSize(n.children[i])]))

isOverSize(n, maxSize) == estimateSize(n) > maxSize

shouldSplitNode(n, maxSize) ==
  \/ isOverSize(n, maxSize)
  \/ Len(n.children) > 10
  \/ n.type \in {"PAGE", "CANVAS"}
  \/ n.image

\* NodeChunkingStrategy.shouldChunk
shouldChunk(n, maxSize) == isOverSize(n, maxSize) \/ shouldSplitNode(n, maxSize)

\* The identifier part of a chunk id: a node's own id, `node-${Date.now()}`
\* or `child-${Date.now()}-${i}`, or a fixed name of the other strategies
Identifier(kind, name, t, i) == [kind |-> kind, name |-> name, t |-> t, i |-> i]

\* [fileKey, type, identifier].join(':'), for the one fileKey of a call
generateId(type, identifier) == [type |-> type, identifier |-> identifier]

\* Date.now() while the node numbered at is worked on: one value for the
\* whole call when it runs within a millisecond (fast), else a value of
\* its own per node
DateNow(at, fast) == IF fast THEN 0 ELSE at

RECURSIVE Unique(_)
\* [...new Set(list)]: the first occurrence of every element, in order
Unique(list) ==
  IF list = <<>> THEN <<>>
  ELSE LET rest == Unique(SubSeq(list, 1, Len(list) - 1))
           x == list[Len(list)]
       IN IF \E i \in DOMAIN rest : rest[i] = x THEN rest ELSE Append(rest, x)

\* a chunk: links is the set of the ids of its links array, order the array
NewChunk(id, type, data, links) ==
  [id |-> id, type |-> type, data |-> data,
   links |-> {links[i] : i \in DOMAIN links}, order |-> links]

createSimpleChunkResult(chunk, references) ==
  [chunks |-> <<chunk>>, primaryChunkId |-> chunk.id, references |-> references]

\* the id of the chunk that chunk() and processComplexNode make for a node
NodeChunkId(n, t) ==
  generateId("node", IF n.id # "" THEN Identifier("id", n.id, 0, 0)
                     ELSE Identifier("node", "", t, 0))

\* processChildren: a child that shouldChunk is replaced by a reference
\* whose chunkId comes from idMap, which holds generateId of the child's id,
\* or is generated from the child's id or from `child-${Date.now()}-${i}`
processChildren(children, t) ==
  [i \in DOMAIN children |->
     IF ~shouldChunk(children[i], maxChunkSize) THEN children[i]
     ELSE [ref |-> TRUE, id |-> children[i].id, type |-> children[i].type,
           chunkId |-> generateId("node",
                         IF children[i].id # ""
                         THEN Identifier("id", children[i].id, 0, 0)
                         ELSE Identifier("child", "", t, i - 1))]]

RECURSIVE NodeChunk(_, _, _)
\* NodeChunkingStrategy.chunk, with processComplexNode
NodeChunk(n, at, fast) ==
  LET t == DateNow(at, fast)
      chunkId == NodeChunkId(n, t)
  IN IF ~shouldChunk(n, maxChunkSize)
     THEN createSimpleChunkResult(NewChunk(chunkId, "node", n, <<>>), {})
     ELSE
       LET complex == {i \in DOMAIN n.children : shouldChunk(n.children[i], maxChunkSize)}
           childResults == [i \in complex |->
                              NodeChunk(n.children[i], at * PathBase + i, fast)]
           references == UNION {{childResults[i].primaryChunkId} \cup childResults[i].references :
                                   i \in complex}
           referenceList == PushAll([i \in DOMAIN n.children |->
                                       IF i \in complex
                                       THEN <<childResults[i].primaryChunkId>> \o
                                            childResults[i].chunks[1].order
                                       ELSE <<>>])
           chunk == NewChunk(chunkId, "node",
                             [n EXCEPT !.children = processChildren(n.children, t)],
                             Unique(referenceList))
       IN [chunks |-> <<chunk>> \o
                      Flatten([i \in DOMAIN n.children |->
                                 IF i \in complex THEN childResults[i].chunks ELSE <<>>]),
           primaryChunkId |-> chunkId,
           references |-> references]

MAX_DEPTH == 100

\* the child context keeps the depth of its parent
childDepth_Same(depth) == depth

\* createChildContext: depth: parentContext.depth + 1
childDepth(depth) == depth + 1

RECURSIVE DepthExceeded(_, _)
\* NodeChunkingStrategy.chunk(n, context) with context.depth = depth throws
\* `Maximum chunking depth exceeded`, itself or in a call it awaits
DepthExceeded(n, depth) ==
  \/ depth > MAX_DEPTH
  \/ /\ shouldChunk(n, maxChunkSize)
     /\ \E i \in DOMAIN n.children :
           /\ shouldChunk(n.children[i], maxChunkSize)
           /\ DepthExceeded(n.children[i], childDepth(depth))

\* compressNodeData: the listed properties are kept, children becomes []
compressNodeData(data) == [data EXCEPT !.extra = 0, !.children = <<>>]

\* Global variables, given as an array: a variable is [type, size], type
\* what determineVariableType gives for it and size its JSON bytes
VariableTypes == <<"COLOR", "FLOAT", "STRING", "BOOLEAN", "TEXT_STYLE", "EFFECT_STYLE", "OTHER">>

\* bytes of one "TYPE":"chunk id" entry of the index chunk
IndexEntrySize == 40

VarsSize(variables) == ArraySize([i \in DOMAIN variables |-> variables[i].size])

IsOfType(v, ty) == v.type = ty

groupVariablesByType(data) ==
  [k \in DOMAIN VariableTypes |->
     SelectSeq(data, LAMBDA v : IsOfType(v, VariableTypes[k]))]

RECURSIVE splitLargeGroup(_, _, _, _)
\* the loop of splitLargeGroup with its currentGroup and currentSize
splitLargeGroup(variables, maxSize, currentGroup, currentSize) ==
  LET flush == IF currentGroup # <<>> THEN <<currentGroup>> ELSE <<>> IN
  IF variables = <<>> THEN flush
  ELSE LET v == Head(variables) IN
       IF v.size > maxSize
       THEN flush \o <<<<v>>>> \o splitLargeGroup(Tail(variables), maxSize, <<>>, 0)
       ELSE IF currentSize + v.size > maxSize /\ currentGroup # <<>>
       THEN <<currentGroup>> \o splitLargeGroup(Tail(variables), maxSize, <<v>>, v.size)
       ELSE splitLargeGroup(Tail(variables), maxSize, Append(currentGroup, v),
                            currentSize + v.size)

\* the chunks of one type group: one chunk, or one per sub-group
GroupChunks(ty, variables) ==
  IF variables = <<>> THEN <<>>
  ELSE IF VarsSize(variables) > maxChunkSize
  THEN LET subGroups == splitLargeGroup(variables, maxChunkSize, <<>>, 0) IN
       [i \in DOMAIN subGroups |->
          NewChunk(generateId("globalVars", Identifier("sub", ty, 0, i - 1)), "globalVars",
                   [shape |-> "vars", vars |-> subGroups[i]], <<>>)]
  ELSE <<NewChunk(generateId("globalVars", Identifier("type", ty, 0, 0)), "globalVars",
                  [shape |-> "vars", vars |-> variables], <<>>)>>

\* the index chunk is put at the end of the array
unshift_Pushed(chunks, chunk) == chunks \o <<chunk>>

\* chunks.unshift(chunk)
unshift(chunks, chunk) == <<chunk>> \o chunks

\* GlobalVarsChunkingStrategy.chunk
GlobalVarsChunk(data) ==
  IF ~(VarsSize(data) > maxChunkSize)
  THEN createSimpleChunkResult(
         NewChunk(generateId("globalVars", Identifier("name", "all", 0, 0)), "globalVars",
                  [shape |-> "vars", vars |-> data], <<>>), {})
  ELSE LET groups == groupVariablesByType(data)
           chunks == Flatten([k \in DOMAIN VariableTypes |->
                                GroupChunks(VariableTypes[k], groups[k])])
           references == {chunks[i].id : i \in DOMAIN chunks}
           indexId == generateId("globalVars", Identifier("name", "index", 0, 0))
           indexChunk == NewChunk(indexId, "globalVars",
                                  [shape |-> "index",
                                   types |-> {k \in DOMAIN VariableTypes : groups[k] # <<>>}],
                                  [i \in DOMAIN chunks |-> chunks[i].id])
       IN [chunks |-> unshift(chunks, indexChunk),
           primaryChunkId |-> indexId,
           references |-> references]

\* the chunks hold arrays and the index object, none with a `variables`
\* property: compressGlobalVarsData returns them as they are
compressGlobalVarsData(data) == data

\* Metadata is [essential, other, components, names, document]: the bytes
\* of name, version, schemaVersion and lastModified, of the other plain
\* properties, of components and styles in full and reduced to their
\* names, and of the document (0 without one)
MetaSize(d) == d.essential + d.other + d.components + d.document

\* bytes of the page list of the core metadata and of the structure summary
PagesSize == 100

MetaChunkId(name) == generateId("metadata", Identifier("name", name, 0, 0))

\* MetadataChunkingStrategy.chunk
MetadataChunk(data) ==
  IF ~(MetaSize(data) > maxChunkSize)
  THEN createSimpleChunkResult(NewChunk(MetaChunkId("main"), "metadata", data, <<>>), {})
  ELSE LET hasStructure == data.document > 0
           linkList == <<MetaChunkId("details")>> \o
                       (IF hasStructure THEN <<MetaChunkId("structure")>> ELSE <<>>)
           links == {linkList[i] : i \in DOMAIN linkList}
           mainChunk == NewChunk(MetaChunkId("main"), "metadata",
                                 [data EXCEPT !.other = IF hasStructure THEN PagesSize ELSE 0,
                                              !.components = 0, !.names = 0, !.document = 0],
                                 linkList)
           detailsChunk == NewChunk(MetaChunkId("details"), "metadata",
                                    [data EXCEPT !.essential = 0, !.document = 0], <<>>)
           structureChunk == NewChunk(MetaChunkId("structure"), "metadata",
                                      [data EXCEPT !.essential = 0, !.other = PagesSize,
                                                   !.components = 0, !.names = 0,
                                                   !.document = 0], <<>>)
       IN [chunks |-> <<mainChunk, detailsChunk>> \o
                      (IF hasStructure THEN <<structureChunk>> ELSE <<>>),
           primaryChunkId |-> mainChunk.id,
           references |-> links]

\* compressMetadataData: the four essential properties are kept,
\* components and styles are reduced to their names
compressMetadataData(data) ==
  [data EXCEPT !.other = 0, !.components = data.names, !.document = 0]

\* estimateSize(chunk.data)
ChunkDataSize(chunk) ==
  CASE chunk.type = "node" -> estimateSize(chunk.data)
    [] chunk.type = "metadata" -> MetaSize(chunk.data)
    [] chunk.type = "globalVars" ->
         IF chunk.data.shape = "vars" THEN VarsSize(chunk.data.vars)
         ELSE 2 + IndexEntrySize * Cardinality(chunk.data.types)

\* ChunkOptimizer.mediumOptimize
mediumOptimize(chunk) ==
  [chunk EXCEPT !.data =
     CASE chunk.type = "node" -> compressNodeData(chunk.data)
       [] chunk.type = "metadata" -> compressMetadataData(chunk.data)
       [] chunk.type = "globalVars" -> compressGlobalVarsData(chunk.data)]

\* ChunkOptimizer.optimize: HIGH is mediumOptimize and the removal of the
\* properties named _..., of which the inputs have none
optimize(chunk, level) ==
  IF level = "none" THEN chunk ELSE mediumOptimize(chunk)

\* the strategy of the input's type
StrategyChunk(input, fast) ==
  CASE input.type = "node" -> NodeChunk(input.data, 1, fast)
    [] input.type = "metadata" -> MetadataChunk(input.data)
    [] input.type = "globalVars" -> GlobalVarsChunk(input.data)

\* Chunker.optimizeChunks
optimizeChunks(result, level) ==
  [result EXCEPT !.chunks = [i \in DOMAIN result.chunks |-> optimize(result.chunks[i], level)]]

(* ChunkReferenceGraph (chunk-id-generator.ts).  adjacencyList is a Map of  *)
(* Sets: keys is the sequence of its keys in insertion order, refs[i] the   *)
(* members of the Set of keys[i] in insertion order.                        *)

GraphIds == {"a", "b", "c"}

MaxReferences == 5

\* new ChunkReferenceGraph()
EmptyGraph == [keys |-> <<>>, refs |-> <<>>]

Members(list) == {list[i] : i \in DOMAIN list}

KeyIndex(g, id) == CHOOSE i \in DOMAIN g.keys : g.keys[i] = id

\* this.adjacencyList.get(node) || new Set()
Adjacent(g, id) ==
  IF id \in Members(g.keys) THEN g.refs[KeyIndex(g, id)] ELSE <<>>

\* ChunkReferenceGraph.addNode
addNode(g, chunkId) ==
  IF chunkId \in Members(g.keys) THEN g
  ELSE [keys |-> Append(g.keys, chunkId), refs |-> Append(g.refs, <<>>)]

\* ChunkReferenceGraph.addReference
addReference(g, sourceId, targetId) ==
  LET g2 == addNode(addNode(g, sourceId), targetId)
      i == KeyIndex(g2, sourceId)
  IN IF targetId \in Members(g2.refs[i]) THEN g2
     ELSE [g2 EXCEPT !.refs[i] = Append(@, targetId)]

\* the outer loop starts a search at the first key only
SearchRoots_First(g) == IF g.keys = <<>> THEN <<>> ELSE <<g.keys[1]>>

\* for (const node of this.adjacencyList.keys())
SearchRoots(g) == g.keys

\* path.slice(path.findIndex(n => n === adjacent)).concat(adjacent)
CycleFrom(path, adjacent) ==
  LET cycleStart == CHOOSE i \in DOMAIN path :
                       path[i] = adjacent /\ \A j \in 1..(i - 1) : path[j] # adjacent
  IN Append(SubSeq(path, cycleStart, Len(path)), adjacent)

RECURSIVE dfsForCycleDetection(_, _, _, _)
RECURSIVE DfsAdjacent(_, _, _, _)
\* the loop over adjacentNodes from the k-th on; st is [visited,
\* recursionStack, cycles], path the caller's path with node pushed
DfsAdjacent(g, adjacentNodes, st, path) ==
  IF adjacentNodes = <<>> THEN st
  ELSE LET adjacent == Head(adjacentNodes)
           st2 == IF adjacent \notin st.visited
                  THEN dfsForCycleDetection(g, adjacent, st, path)
                  ELSE IF adjacent \in st.recursionStack /\ adjacent \in Members(path)
                       THEN [st EXCEPT !.cycles = Append(@, CycleFrom(path, adjacent))]
                       ELSE st
       IN DfsAdjacent(g, Tail(adjacentNodes), st2, path)

\* ChunkReferenceGraph.dfsForCycleDetection
dfsForCycleDetection(g, node, st, path) ==
  LET entered == [st EXCEPT !.visited = @ \cup {node}, !.recursionStack = @ \cup {node}]
      done == DfsAdjacent(g, Adjacent(g, node), entered, Append(path, node))
  IN [done EXCEPT !.recursionStack = @ \ {node}]

RECURSIVE DetectFrom(_, _, _)
DetectFrom(g, nodes, st) ==
  IF nodes = <<>> THEN st
  ELSE DetectFrom(g, Tail(nodes),
                  IF Head(nodes) \notin st.visited
                  THEN dfsForCycleDetection(g, Head(nodes), st, <<>>)
                  ELSE st)

\* ChunkReferenceGraph.detectCircularReferences
detectCircularReferences(g) ==
  DetectFrom(g, SearchRoots(g),
             [visited |-> {}, recursionStack |-> {}, cycles |-> <<>>]).cycles

ReferenceCount(g) == SumSeq([i \in DOMAIN g.refs |-> Len(g.refs[i])])

\* The inputs of Chunker.chunk
Node(id, type, own, extra, image, children) ==
  [ref |-> FALSE, id |-> id, type |-> type, own |-> own, extra |-> extra,
   image |-> image, children |-> children]

SmallNode == 2048

BigNode == 5000

\* leaves: about 2 KB, about 2 KB with an image fill, over maxChunkSize
LeafNodes ==
  {Node(id, "RECTANGLE", sz[1], 100, sz[2], <<>>) :
     id \in {"", "a", "b"},
     sz \in {<<SmallNode, FALSE>>, <<SmallNode, TRUE>>, <<BigNode, FALSE>>}}

\* groups of one leaf
GroupNodes ==
  {Node(id, "GROUP", 200, 100, FALSE, <<leaf>>) :
     id \in {"", "m"},
     leaf \in {Node("", "RECTANGLE", BigNode, 100, FALSE, <<>>),
               Node("a", "RECTANGLE", SmallNode, 100, TRUE, <<>>),
               Node("b", "RECTANGLE", SmallNode, 100, FALSE, <<>>)}}

ChildNodes == LeafNodes \cup GroupNodes

RectangleIds == <<"r1", "r2", "r3", "r4", "r5", "r6", "r7", "r8", "r9", "r10", "r11", "r12">>

\* a FRAME of 12 RECTANGLE children of 2 KB each
Frame12 ==
  Node("frame", "FRAME", 200, 100, FALSE,
       [i \in DOMAIN RectangleIds |->
          Node(RectangleIds[i], "RECTANGLE", SmallNode, 0, FALSE, <<>>)])

NodeInputs ==
  {Node(id, type, 200, 100, FALSE, children) :
     id \in {"", "r"}, type \in {"FRAME", "CANVAS"},
     children \in {<<>>} \cup {<<c>> : c \in ChildNodes}
                  \cup {<<c, d>> : c \in ChildNodes, d \in ChildNodes}}
  \cup {Frame12}

VariableValues == {[type |-> ty, size |-> sz] : ty \in {"COLOR", "FLOAT"}, sz \in {1500, 2047, 5000}}

GlobalVarsInputs ==
  {<<u>> : u \in VariableValues}
  \cup {<<u, v>> : u \in VariableValues, v \in VariableValues}
  \cup {<<u, v, w>> : u \in VariableValues, v \in VariableValues, w \in VariableValues}

MetadataInputs ==
  {[essential |-> 300, other |-> 500, components |-> c[1], names |-> c[2], document |-> d] :
     c \in {<<0, 0>>, <<3000, 300>>, <<9000, 900>>, <<90000, 9000>>}, d \in {0, 2000}}

ChunkerInputs ==
  {[type |-> "node", data |-> n] : n \in NodeInputs}
  \cup {[type |-> "globalVars", data |-> g] : g \in GlobalVarsInputs}
  \cup {[type |-> "metadata", data |-> m] : m \in MetadataInputs}
  \cup {[type |-> "unregistered", data |-> <<>>]}

OptimizationLevels == {"none", "medium", "high"}

\* new Chunker({maxChunkSize, optimizationLevel}), no call made yet
InitChunker ==
  /\ InitStore
  /\ backend = "fs"
  /\ FsIdle
  /\ rconn = [client |-> 0, connected |-> FALSE, connecting |-> 0,
              attempts |-> <<>>, timers |-> {}, quit |-> {}]
  /\ rcall = <<>>
  /\ mgr = <<>>
  /\ ck = [op |-> "none"]
  /\ graph = EmptyGraph
  /\ mcp = <<>>

ContextDepths == {0, 99, 100, 101}

\* NodeChunkingStrategy.chunk(data, context) with context.depth = depth
NodeStrategyChunk(n, depth, fast) ==
  /\ ck.op = "none"
  /\ ck' = IF DepthExceeded(n, depth)
           THEN [op |-> "strategyThrew", input |-> n, depth |-> depth, fast |-> fast]
           ELSE [op |-> "strategy", input |-> n, depth |-> depth, fast |-> fast,
                 result |-> NodeChunk(n, 1, fast)]
  /\ UNCHANGED <<storeVars, fsVars, connVars, mgr, graph, mcp>>

\* new Chunker(config): a chunker that has made no call
NewChunker ==
  /\ ck.op # "none"
  /\ ck' = [op |-> "none"]
  /\ graph' = EmptyGraph
  /\ UNCHANGED <<storeVars, fsVars, connVars, mgr, mcp>>

RECURSIVE AddLinks(_, _, _)
\* for (const linkedId of chunk.links) this.referenceGraph.addReference(...)
AddLinks(g, id, links) ==
  IF links = <<>> THEN g
  ELSE AddLinks(addReference(g, id, Head(links)), id, Tail(links))

RECURSIVE AddChunks(_, _)
AddChunks(g, chunks) ==
  IF chunks = <<>> THEN g
  ELSE AddChunks(AddLinks(addNode(g, Head(chunks).id), Head(chunks).id, Head(chunks).order),
                 Tail(chunks))

\* Chunker.processReferences: the graph after it
processReferences(g, result) == AddChunks(g, result.chunks)

\* strict mode: cycles make the call fail
CyclesFail_Strict(cycles) == cycles # <<>>

\* Chunker.detectCircularReferences: warns when debug is set, never throws
CyclesFail(cycles) == FALSE

\* the configurations: the default one, and one that collects metrics
ChunkerConfigs ==
  {[detectCircularReferences |-> TRUE, collectMetrics |-> FALSE],
   [detectCircularReferences |-> FALSE, collectMetrics |-> TRUE]}

\* ChunkOptimizer.optimize throws: data that holds a reference to itself
\* makes JSON.stringify(chunk.data) throw
optimizeThrows(circular) == circular

\* Chunker.chunk(data, fileKey, type), the first call of a Chunker made with
\* level and config.  circular: the data, a small metadata object, holds a
\* reference to itself.  recorded counts the calls of recordProcessingTime.
ChunkerChunk(input, level, fast, config, circular) ==
  /\ ck.op = "none"
  /\ fast \/ input.type = "node"
  /\ circular => (input.type = "metadata" /\ ~(MetaSize(input.data) > maxChunkSize))
  /\ LET call == [input |-> input, level |-> level, fast |-> fast,
                  config |-> config, circular |-> circular, recorded |-> 0]
         threw(stage) == [op |-> "chunkThrew", stage |-> stage] @@ call
         strategy == StrategyChunk(input, fast)
         linked == processReferences(graph, strategy)
     IN IF input.type \notin ChunkTypes
        THEN ck' = threw("strategy") /\ graph' = graph
        ELSE IF input.type = "node" /\ DepthExceeded(input.data, 0)
        THEN ck' = threw("depth") /\ graph' = graph
        ELSE IF level # "none" /\ optimizeThrows(circular)
        THEN ck' = threw("optimize") /\ graph' = linked
        ELSE IF config.detectCircularReferences
                /\ CyclesFail(detectCircularReferences(linked))
        THEN ck' = threw("cycles") /\ graph' = linked
        ELSE /\ ck' = [op |-> "chunk", input |-> input, level |-> level, fast |-> fast,
                       config |-> config, circular |-> circular,
                       recorded |-> IF config.collectMetrics THEN 1 ELSE 0,
                       strategy |-> strategy,
                       result |-> optimizeChunks(strategy, level),
                       cycles |-> IF config.detectCircularReferences
                                  THEN detectCircularReferences(linked) ELSE <<>>]
             /\ graph' = linked
  /\ UNCHANGED <<storeVars, fsVars, connVars, mgr, mcp>>

\* a call of the node strategy with the context its caller made
NodeStrategyCall ==
  /\ ck.op = "none"
  /\ \E n \in NodeInputs, depth \in ContextDepths, fast \in BOOLEAN :
        NodeStrategyChunk(n, depth, fast)

\* a call of Chunker.chunk
ChunkerCall ==
  /\ ck.op = "none"
  /\ \E input \in ChunkerInputs, level \in OptimizationLevels, fast \in BOOLEAN,
        config \in ChunkerConfigs, circular \in BOOLEAN :
        ChunkerChunk(input, level, fast, config, circular)

NextChunker ==
  \/ NewChunker
  \/ NodeStrategyCall
  \/ ChunkerCall

SpecChunker == InitChunker /\ [][NextChunker]_vars

----------------------------------------------------------------------------
(* Claims on the chunker                                                   *)

ChunkIds(R) == {R.chunks[i].id : i \in DOMAIN R.chunks}

\* the links of the chunks of R with the id from, to chunks of R
LinksOf(R, from) ==
  UNION {R.chunks[i].links : i \in {j \in DOMAIN R.chunks : R.chunks[j].id = from}}
  \cap ChunkIds(R)

RECURSIVE ReachableFrom(_, _)
ReachableFrom(R, seen) ==
  LET more == seen \cup UNION {LinksOf(R, id) : id \in seen} IN
  IF more = seen THEN seen ELSE ReachableFrom(R, more)

\* what the claim says R.references is
ClosureOfPrimary(R) == ReachableFrom(R, {R.primaryChunkId}) \ {R.primaryChunkId}

\* C16 as stated: in the result of a strategy and in the result of
\* Chunker.chunk, references is the set of ids reachable from the primary
\* chunk along links among the chunks of the result, the primary's own id
\* left out.
C16_ReferencesAreLinkClosure ==
  ck.op = "chunk" =>
     /\ ck.strategy.references = ClosureOfPrimary(ck.strategy)
     /\ ck.result.references = ClosureOfPrimary(ck.result)

\* C17: in the result of Chunker.chunk, every id in the links of any chunk
\* is the id of a chunk of the result's chunks array.
C17_LinksStayInResult ==
  ck.op = "chunk" =>
     \A i \in DOMAIN ck.result.chunks :
        ck.result.chunks[i].links \subseteq ChunkIds(ck.result)

\* a node result of three chunks or more whose primary chunk links to other
\* chunks, and a globalVars result whose index chunk links to group chunks
C17_Witness ==
  /\ ck.op = "chunk"
  /\ ck.level = "medium"
  /\ Len(ck.result.chunks) >= 3
  /\ \E i \in DOMAIN ck.result.chunks :
        /\ ck.result.chunks[i].id = ck.result.primaryChunkId
        /\ Cardinality(ck.result.chunks[i].links \ {ck.result.primaryChunkId}) >= 2

\* C18 as stated: in every node chunk the node strategy produces, each
\* reference object of data.children has its chunkId among the chunk's
\* links, whether the child has an id of its own or not.
C18_ReferenceChunkIdInLinks ==
  (ck.op = "chunk" /\ ck.input.type = "node") =>
     \A i \in DOMAIN ck.strategy.chunks :
        LET chunk == ck.strategy.chunks[i] IN
        \A k \in DOMAIN chunk.data.children :
           chunk.data.children[k].ref => chunk.data.children[k].chunkId \in chunk.links

\* a chunk that cannot be divided: a node without children, a group of one
\* variable, the index chunk, a chunk of a split metadata object
IndivisibleLeaf(chunk) ==
  CASE chunk.type = "node" -> chunk.data.children = <<>>
    [] chunk.type = "globalVars" ->
         chunk.data.shape = "index" \/ Len(chunk.data.vars) = 1
    [] chunk.type = "metadata" -> chunk.links = {} /\ chunk.id # MetaChunkId("main")

\* C19 as stated: at level MEDIUM or HIGH every chunk Chunker.chunk returns
\* has estimateSize(data) <= maxChunkSize unless the chunk, as the strategy
\* made it, is a single indivisible leaf.
C19_OptimizedChunksFit ==
  (ck.op = "chunk" /\ ck.level \in {"medium", "high"}) =>
     \A i \in DOMAIN ck.result.chunks :
        \/ ChunkDataSize(ck.result.chunks[i]) <= maxChunkSize
        \/ IndivisibleLeaf(ck.strategy.chunks[i])

\* C20 as stated: chunking a FRAME of 12 RECTANGLE children of about 2 KB
\* each at maxSize 4096 gives a primary chunk whose children are 12
\* reference objects and whose links has length 12, 12 further chunks, and
\* references of length 12.
C20_FrameOfTwelveRectangles ==
  (ck.op = "chunk" /\ ck.input = [type |-> "node", data |-> Frame12]) =>
     LET R == ck.strategy
         primary == R.chunks[1]
     IN /\ primary.id = R.primaryChunkId
        /\ Len(primary.data.children) = 12
        /\ \A k \in DOMAIN primary.data.children : primary.data.children[k].ref
        /\ Cardinality(primary.links) = 12
        /\ Len(R.chunks) = 13
        /\ Cardinality(R.references) = 12

\* the ids of the chunks after position i that chunk i links to, in the
\* order of the chunks
Dependents(R, i) ==
  LET later == SubSeq(R.chunks, i + 1, Len(R.chunks))
      linked(c) == c.id \in R.chunks[i].links
  IN Unique([k \in DOMAIN SelectSeq(later, linked) |-> SelectSeq(later, linked)[k].id])

\* the links of chunk i that are ids of chunks after position i, in the
\* order of the links
LinkedLater(R, i) ==
  LET laterIds == {R.chunks[j].id : j \in (i + 1)..Len(R.chunks)}
      present(id) == id \in laterIds
  IN SelectSeq(R.chunks[i].order, present)

TopologicallyOrdered(R) ==
  /\ R.chunks[1].id = R.primaryChunkId
  /\ \A j \in 2..Len(R.chunks) :
        \E i \in 1..(j - 1) : R.chunks[j].id \in R.chunks[i].links
  /\ \A i \in DOMAIN R.chunks : Dependents(R, i) = LinkedLater(R, i)

\* C21: in the result of a strategy and of Chunker.chunk the primary chunk is
\* chunks[0], every other chunk comes after a chunk that links to it, and
\* the chunks a chunk links to come in the order of its links.
C21_ChunksTopologicallyOrdered ==
  ck.op = "chunk" => TopologicallyOrdered(ck.strategy) /\ TopologicallyOrdered(ck.result)

\* a node result whose primary chunk links to a child and to a grandchild
\* chunk, the three in that order, and a globalVars result of an index chunk
\* and two groups or more
C21_Witness ==
  /\ ck.op = "chunk"
  /\ Len(ck.result.chunks) >= 3
  /\ Len(ck.result.chunks[1].order) >= 2
  /\ \/ ck.input.type = "globalVars"
     \/ /\ ck.input.type = "node"
        /\ ck.result.chunks[2].links # {}
        /\ ck.result.chunks[1].order[1] # ck.result.chunks[1].order[2]

----------------------------------------------------------------------------
(* ChunkReferenceGraph on its own                                          *)

\* graph.addNode(chunkId)
GraphAddNode(chunkId) ==
  /\ graph # <<>>
  /\ graph' = addNode(graph, chunkId)
  /\ UNCHANGED <<storeVars, fsVars, connVars, mgr, ck, mcp>>

\* graph.addReference(sourceId, targetId)
GraphAddReference(sourceId, targetId) ==
  /\ graph # <<>>
  /\ ReferenceCount(graph) < MaxReferences
  /\ graph' = addReference(graph, sourceId, targetId)
  /\ UNCHANGED <<storeVars, fsVars, connVars, mgr, ck, mcp>>

InitGraph ==
  /\ InitStore
  /\ backend = "fs"
  /\ FsIdle
  /\ rconn = [client |-> 0, connected |-> FALSE, connecting |-> 0,
              attempts |-> <<>>, timers |-> {}, quit |-> {}]
  /\ rcall = <<>>
  /\ mgr = <<>>
  /\ ck = <<>>
  /\ graph = EmptyGraph
  /\ mcp = <<>>

NextGraph ==
  \/ \E chunkId \in GraphIds : GraphAddNode(chunkId)
  \/ \E sourceId \in GraphIds, targetId \in GraphIds : GraphAddReference(sourceId, targetId)

SpecGraph == InitGraph /\ [][NextGraph]_vars

\* the ids reachable from id along one reference or more
RECURSIVE ReachableIds(_, _)
ReachableIds(g, seen) ==
  LET more == seen \cup UNION {Members(Adjacent(g, id)) : id \in seen} IN
  IF more = seen THEN seen ELSE ReachableIds(g, more)

HasCycle(g) ==
  \E id \in Members(g.keys) : id \in ReachableIds(g, Members(Adjacent(g, id)))

\* C22: detectCircularReferences() returns a non-empty list if and only if
\* the graph built with addNode and addReference has a directed cycle, a
\* self-loop included.
C22_DetectsExactlyCycles ==
  graph # <<>> => ((detectCircularReferences(graph) # <<>>) <=> HasCycle(graph))

\* a graph whose only cycle does not pass through its first key, found
C22_Witness ==
  /\ graph # <<>>
  /\ Len(graph.keys) = 3
  /\ graph.keys[1] \notin ReachableIds(graph, Members(Adjacent(graph, graph.keys[1])))
  /\ HasCycle(graph)
  /\ detectCircularReferences(graph) # <<>>

----------------------------------------------------------------------------
(* ChunkIdGenerator on the text of an id.  A string is a sequence of        *)
(* characters; a chunk type's name counts as one character that is no ':'.  *)

ID_SEPARATOR == ":"

IdChars == {"k", "1", ID_SEPARATOR}

MaxIdText == 3

IdStrings(n) == UNION {[1..m -> IdChars] : m \in 0..n}

\* crypto.randomBytes(8).toString('hex')
RandomIdentifiers == {<<"1">>, <<"k", "1">>}

\* [fileKey, type, finalIdentifier].join(ID_SEPARATOR)
JoinId(fileKey, type, finalIdentifier) ==
  fileKey \o <<ID_SEPARATOR>> \o <<type>> \o <<ID_SEPARATOR>> \o finalIdentifier

\* ChunkIdGenerator.generateId on text: identifier || generateRandomIdentifier()
generateIdText(fileKey, type, identifier, random) ==
  JoinId(fileKey, type, IF identifier = <<>> THEN random ELSE identifier)

RECURSIVE SplitId(_, _)
\* the pieces of text between separators, current the piece being read
SplitId(text, current) ==
  IF text = <<>> THEN <<current>>
  ELSE IF Head(text) = ID_SEPARATOR THEN <<current>> \o SplitId(Tail(text), <<>>)
  ELSE SplitId(Tail(text), Append(current, Head(text)))

\* id.match(/^([^:]+):([^:]+)(?::([^:]+))?$/)
MatchesIdRegex(id) ==
  LET parts == SplitId(id, <<>>) IN
  Len(parts) \in {2, 3} /\ \A i \in DOMAIN parts : parts[i] # <<>>

\* Object.values(ChunkType).includes(typeStr)
ValidTypeText(typeStr) == Len(typeStr) = 1 /\ typeStr[1] \in ChunkTypes

\* ChunkIdGenerator.parseId; identifier <<>> is undefined
parseId(id) ==
  LET parts == SplitId(id, <<>>) IN
  IF ~MatchesIdRegex(id) \/ ~ValidTypeText(parts[2])
  THEN [threw |-> TRUE, fileKey |-> <<>>, type |-> <<>>, identifier |-> <<>>]
  ELSE [threw |-> FALSE, fileKey |-> parts[1], type |-> parts[2],
        identifier |-> IF Len(parts) = 3 THEN parts[3] ELSE <<>>]

\* parseId(generateId(fileKey, type, identifier)) of the arguments drawn
ParseGenerated ==
  /\ ck.op = "arguments"
  /\ ck' = [ck EXCEPT !.op = "parseId",
                      !.id = generateIdText(ck.fileKey, ck.type, ck.identifier, ck.random),
                      !.parsed = parseId(generateIdText(ck.fileKey, ck.type,
                                                        ck.identifier, ck.random))]
  /\ UNCHANGED <<storeVars, fsVars, connVars, mgr, graph, mcp>>

\* the arguments of generateId and the bytes crypto.randomBytes will give
InitId ==
  /\ InitStore
  /\ backend = "fs"
  /\ FsIdle
  /\ rconn = [client |-> 0, connected |-> FALSE, connecting |-> 0,
              attempts |-> <<>>, timers |-> {}, quit |-> {}]
  /\ rcall = <<>>
  /\ mgr = <<>>
  /\ \E fileKey \in IdStrings(2) \ {<<>>}, type \in ChunkTypes,
        identifier \in IdStrings(MaxIdText), random \in RandomIdentifiers :
          ck = [op |-> "arguments", fileKey |-> fileKey, type |-> type,
                identifier |-> identifier, random |-> random,
                id |-> <<>>, parsed |-> <<>>]
  /\ graph = <<>>
  /\ mcp = <<>>

NextId == ParseGenerated

SpecId == InitId /\ [][NextId]_vars

\* C23 as stated: for every fileKey, chunk type and identifier that is
\* given, parseId(generateId(fileKey, type, identifier)) returns exactly
\* {fileKey, type, identifier}.
C23_ParseInvertsGenerate ==
  (ck.op = "parseId" /\ ck.identifier # <<>>) =>
     /\ ~ck.parsed.threw
     /\ ck.parsed.fileKey = ck.fileKey
     /\ ck.parsed.type = <<ck.type>>
     /\ ck.parsed.identifier = ck.identifier

RECURSIVE ComplexHeight(_)
\* the number of levels of extracted children below n
ComplexHeight(n) ==
  LET complex == {i \in DOMAIN n.children : shouldChunk(n.children[i], maxChunkSize)}
      below == {ComplexHeight(n.children[i]) : i \in complex}
  IN IF ~shouldChunk(n, maxChunkSize) \/ complex = {} THEN 0
     ELSE 1 + (CHOOSE h \in below : \A g \in below : g <= h)

\* C25: the node strategy's chunk() fails with the depth error when its
\* context depth is over 100, and each call on an extracted child runs at
\* its parent's depth + 1: the call fails exactly when the depth of the call
\* plus the levels of extracted children below the node is over 100.
C25_DepthBounded ==
  ck.op \in {"strategy", "strategyThrew"} =>
     /\ ck.depth > MAX_DEPTH => ck.op = "strategyThrew"
     /\ ck.op = "strategyThrew" <=> ck.depth + ComplexHeight(ck.input) > MAX_DEPTH

\* a call at depth 99 that fails two levels down, in a grandchild
C25_Witness ==
  /\ ck.op = "strategyThrew"
  /\ ck.depth = 99
  /\ ComplexHeight(ck.input) = 2

C26_FailedCallLeavesNoState ==
  [][ck'.op = "chunkThrew" => (graph' = graph /\ ck'.recorded = 0)]_vars

\* C28 as stated: every sub-chunk the globalVars strategy makes from a group
\* over the budget has estimateSize(data) <= maxSize, unless it holds a
\* single variable that is itself over the budget.
C28_SubChunksWithinBudget ==
  (ck.op = "chunk" /\ ck.input.type = "globalVars") =>
     \A i \in DOMAIN ck.strategy.chunks :
        LET chunk == ck.strategy.chunks[i] IN
        (chunk.data.shape = "vars" /\ chunk.id.identifier.kind = "sub") =>
           \/ ChunkDataSize(chunk) <= maxChunkSize
           \/ Len(chunk.data.vars) = 1 /\ chunk.data.vars[1].size > maxChunkSize

----------------------------------------------------------------------------
(* ChunkOptimizer.split and ChunkOptimizer.merge (part_009).  A chunk's     *)
(* data is an object: a function from its property names to their values.  *)
(* Node data is a Node record; metadata maps each property to its bytes;   *)
(* globalVars data holds `variables`, a function from variable ids to      *)
(* bytes, and other properties.  An id made by a template literal          *)
(* `${chunk.id}-<part>-<name or index>` is [base, part, name, i].          *)

PartId(id, part, name, i) == [base |-> id.base, part |-> part, name |-> name, i |-> i]

RECURSIVE SumOver(_, _)
SumOver(f, keys) ==
  IF keys = {} THEN 0
  ELSE LET k == CHOOSE k \in keys : TRUE IN f[k] + SumOver(f, keys \ {k})

\* {name: data[name], ...} for the names the object has
Restrict(data, names) == [k \in DOMAIN data \cap names |-> data[k]]

\* Object.assign(target, source)
Assign(target, source) ==
  [k \in DOMAIN target \cup DOMAIN source |->
     IF k \in DOMAIN source THEN source[k] ELSE target[k]]

\* estimateSize(chunk.data)
OptimizerDataSize(chunk) ==
  CASE chunk.type = "node" -> estimateSize(chunk.data)
    [] chunk.type = "metadata" -> 2 + SumOver(chunk.data, DOMAIN chunk.data)
    [] chunk.type = "globalVars" ->
         2 + SumOver(chunk.data, DOMAIN chunk.data \ {"variables"})
           + (IF "variables" \in DOMAIN chunk.data
              THEN 2 + SumOver(chunk.data.variables, DOMAIN chunk.data.variables)
              ELSE 0)

\* splitNodeChunk: the parent without its children, then one chunk per child
splitNodeChunk(chunk, at) ==
  LET children == chunk.data.children
      childId(i) == PartId(chunk.id, "child", "", i - 1)
  IN  IF children = <<>>
      THEN <<[chunk EXCEPT !.links = <<>>]>>
      ELSE <<[chunk EXCEPT !.data = [chunk.data EXCEPT !.children = <<>>],
                           !.links = [i \in DOMAIN children |-> childId(i)]]>>
           \o [i \in DOMAIN children |->
                 Chunk(childId(i), chunk.fileKey, "node", at, 0, at, children[i], <<>>)]

CoreProps == {"name", "version", "schemaVersion", "lastModified"}

SplittableParts == <<"components", "styles", "documentationLinks", "branches">>

\* the names, in order, of the properties the data has (`if (data)`)
RECURSIVE SelectParts(_, _)
SelectParts(names, data) ==
  IF names = <<>> THEN <<>>
  ELSE (IF Head(names) \in DOMAIN data THEN <<Head(names)>> ELSE <<>>)
       \o SelectParts(Tail(names), data)

\* splitMetadataChunk: coreData holds the four core properties, each of the
\* four splittable properties the data has becomes a part chunk
splitMetadataChunk(chunk, at) ==
  LET parts == SelectParts(SplittableParts, chunk.data)
      partId(i) == PartId(chunk.id, "part", parts[i], 0)
  IN  <<[chunk EXCEPT !.data = Restrict(chunk.data, CoreProps),
                      !.links = [i \in DOMAIN parts |-> partId(i)]]>>
      \o [i \in DOMAIN parts |->
            Chunk(partId(i), chunk.fileKey, "metadata", at, 0, at,
                  Restrict(chunk.data, {parts[i]}), <<>>)]

groupSize == 50

MinSplitVariables == 10

\* splitGlobalVarsChunk: variable ids are 1..n in the order of Object.keys
splitGlobalVarsChunk(chunk, at) ==
  IF "variables" \notin DOMAIN chunk.data THEN <<chunk>>
  ELSE LET variables == chunk.data.variables
           n == Cardinality(DOMAIN variables)
           groups == (n + groupSize - 1) \div groupSize
           groupId(g) == PartId(chunk.id, "vars", "", g - 1)
           groupIds(g) == {id \in DOMAIN variables :
                             id > (g - 1) * groupSize /\ id <= g * groupSize}
       IN  IF n <= MinSplitVariables THEN <<chunk>>
           ELSE <<[chunk EXCEPT !.data = [variables |-> <<>>],
                                !.links = [g \in 1..groups |-> groupId(g)]]>>
                \o [g \in 1..groups |->
                      Chunk(groupId(g), chunk.fileKey, "globalVars", at, 0, at,
                            [variables |-> Restrict(variables, groupIds(g))], <<>>)]

\* ChunkOptimizer.split: a chunk within maxSize is returned as a copy
split(chunk, maxSize, at) ==
  IF OptimizerDataSize(chunk) <= maxSize THEN <<chunk>>
  ELSE CASE chunk.type = "node" -> splitNodeChunk(chunk, at)
         [] chunk.type = "metadata" -> splitMetadataChunk(chunk, at)
         [] chunk.type = "globalVars" -> splitGlobalVarsChunk(chunk, at)

\* chunkMap.get(id): the last chunk of that id, <<>> when there is none
Found(chunks, id) ==
  LET at == {i \in DOMAIN chunks : chunks[i].id = id}
  IN  IF at = {} THEN <<>> ELSE <<chunks[CHOOSE i \in at : \A j \in at : j <= i]>>

\* the chunks the links of chunks[1] name, in the order of the links
LinkedChunks(chunks) ==
  LET links == chunks[1].links
  IN  Flatten([i \in DOMAIN links |-> Found(chunks, links[i])])

\* mergeNodeData: the data of the linked chunks is pushed onto children
mergeNodeData(chunks) ==
  LET linked == LinkedChunks(chunks)
  IN  [chunks[1].data EXCEPT
         !.children = @ \o [i \in DOMAIN linked |-> linked[i].data]]

RECURSIVE AssignAll(_, _)
AssignAll(target, sources) ==
  IF sources = <<>> THEN target
  ELSE AssignAll(Assign(target, Head(sources)), Tail(sources))

\* mergeMetadataData
mergeMetadataData(chunks) ==
  LET linked == LinkedChunks(chunks)
  IN  AssignAll(chunks[1].data, [i \in DOMAIN linked |-> linked[i].data])

\* mergeGlobalVarsData: {variables: {...main.variables, ...group.variables}}
mergeGlobalVarsData(chunks) ==
  LET linked == SelectSeq(LinkedChunks(chunks),
                          LAMBDA c : "variables" \in DOMAIN c.data)
      main == IF "variables" \in DOMAIN chunks[1].data
              THEN chunks[1].data.variables ELSE <<>>
  IN  [variables |-> AssignAll(main, [i \in DOMAIN linked |-> linked[i].data.variables])]

\* ChunkOptimizer.merge of one or more chunks
merge(chunks, at) ==
  IF Len(chunks) = 1 THEN chunks[1]
  ELSE LET baseChunk == chunks[1]
           type == baseChunk.type
           mergedData == CASE type = "node" -> mergeNodeData(chunks)
                           [] type = "metadata" -> mergeMetadataData(chunks)
                           [] type = "globalVars" -> mergeGlobalVarsData(chunks)
       IN  Chunk(baseChunk.id, baseChunk.fileKey, type, at, 0, at, mergedData, <<>>)

\* The chunks passed to merge, after the call.  mergeNodeData copies the
\* parent's data with {...parentChunk.data}: parentData.children is the
\* array of the parent chunk itself, and each push onto it shows in the
\* chunk that was passed in.
mergeArguments(chunks) ==
  IF Len(chunks) > 1 /\ chunks[1].type = "node" /\ chunks[1].links # <<>>
  THEN [chunks EXCEPT ![1].data = mergeNodeData(chunks)]
  ELSE chunks

\* The chunks handed to split and merge
InputId(base) == [base |-> base, part |-> "", name |-> "", i |-> 0]

TwoChildFrame ==
  Node("frame", "FRAME", 200, 100, FALSE,
       <<Node("r1", "RECTANGLE", SmallNode, 0, FALSE, <<>>),
         Node("r2", "RECTANGLE", SmallNode, 0, FALSE, <<>>)>>)

OptimizerNodeData ==
  {Node("leaf", "RECTANGLE", 200, 100, FALSE, <<>>),
   Node("leaf", "RECTANGLE", BigNode, 100, FALSE, <<>>),
   TwoChildFrame, Frame12}

MetadataProps == {"components", "styles", "branches", "thumbnailUrl"}

OptimizerMetadata ==
  {[k \in CoreProps \cup extra |-> IF k \in CoreProps THEN 50 ELSE 3000] :
     extra \in SUBSET MetadataProps}

VariableCounts == {3, 11, 51}

OptimizerGlobalVars ==
  {[variables |-> [id \in 1..n |-> 500]] : n \in VariableCounts}
  \cup {[variables |-> [id \in 1..n |-> 500], variableCollections |-> 100] :
          n \in VariableCounts}
  \cup {[variableCollections |-> 5000]}

OptimizerChunks ==
  {Chunk(InputId("c"), "fileKey", t[1], 0, 0, 0, t[2], links) :
     t \in ({"node"} \X OptimizerNodeData) \cup ({"metadata"} \X OptimizerMetadata)
           \cup ({"globalVars"} \X OptimizerGlobalVars),
     links \in {<<>>, <<InputId("x")>>}}

SplitSizes == {maxChunkSize, SmallNode}

\* the chunks the strategies hand to optimize and compress
StrategyChunks ==
  UNION {{r.chunks[i] : i \in DOMAIN r.chunks} :
           r \in {StrategyChunk(input, TRUE) :
                    input \in {[type |-> "node", data |-> Frame12]}
                       \cup {[type |-> "globalVars", data |-> g] : g \in GlobalVarsInputs}
                       \cup {[type |-> "metadata", data |-> m] : m \in MetadataInputs}}}

\* ChunkOptimizer.compress
compress(chunk) == mediumOptimize(chunk)

\* new ChunkOptimizer(), no call made yet
InitOptimizer ==
  /\ InitStore
  /\ backend = "fs"
  /\ FsIdle
  /\ rconn = [client |-> 0, connected |-> FALSE, connecting |-> 0,
              attempts |-> <<>>, timers |-> {}, quit |-> {}]
  /\ rcall = <<>>
  /\ mgr = <<>>
  /\ ck = [op |-> "none"]
  /\ graph = <<>>
  /\ mcp = <<>>

\* optimizer.optimize(chunk, level)
OptimizerOptimize ==
  /\ ck.op = "none"
  /\ \E chunk \in StrategyChunks, level \in OptimizationLevels :
       ck' = [op |-> "optimize", input |-> <<chunk>>, level |-> level,
              output |-> <<optimize(chunk, level)>>, after |-> <<chunk>>]
  /\ UNCHANGED <<storeVars, fsVars, connVars, mgr, graph, mcp>>

\* optimizer.compress(chunk)
OptimizerCompress ==
  /\ ck.op = "none"
  /\ \E chunk \in StrategyChunks :
       ck' = [op |-> "compress", input |-> <<chunk>>,
              output |-> <<compress(chunk)>>, after |-> <<chunk>>]
  /\ UNCHANGED <<storeVars, fsVars, connVars, mgr, graph, mcp>>

\* optimizer.split(chunk, maxSize)
OptimizerSplit ==
  /\ ck.op = "none"
  /\ \E chunk \in OptimizerChunks, maxSize \in SplitSizes :
       ck' = [op |-> "split", input |-> <<chunk>>, maxSize |-> maxSize,
              output |-> split(chunk, maxSize, 1), after |-> <<chunk>>]
  /\ UNCHANGED <<storeVars, fsVars, connVars, mgr, graph, mcp>>

\* optimizer.merge(chunks) of the chunks the last split returned
OptimizerMerge ==
  /\ ck.op = "split"
  /\ ck' = [op |-> "merge", input |-> ck.output, source |-> ck.input[1],
            maxSize |-> ck.maxSize,
            output |-> <<merge(ck.output, 2)>>, after |-> mergeArguments(ck.output)]
  /\ UNCHANGED <<storeVars, fsVars, connVars, mgr, graph, mcp>>

NewOptimizer ==
  /\ ck.op # "none"
  /\ ck' = [op |-> "none"]
  /\ UNCHANGED <<storeVars, fsVars, connVars, mgr, graph, mcp>>

NextOptimizer ==
  \/ OptimizerOptimize
  \/ OptimizerCompress
  \/ OptimizerSplit
  \/ OptimizerMerge
  \/ NewOptimizer

SpecOptimizer == InitOptimizer /\ [][NextOptimizer]_vars

\* C27 as stated: optimize, compress, split and merge leave every chunk
\* passed in (id, data, links, timestamps) as it was before the call.
C27_InputsUnchanged ==
  ck.op \in {"optimize", "compress", "split", "merge"} => ck.after = ck.input

\* the object `kept` has every property of `data`, with the same value
KeepsFields(data, kept) ==
  \A k \in DOMAIN data : k \in DOMAIN kept /\ kept[k] = data[k]

\* C29 as stated: merge(split(c, M)) has the id, fileKey and type of c and
\* keeps the data fields of c: no child node, variable or metadata field
\* is lost.
C29_MergeRestoresSplit ==
  ck.op = "merge" =>
     LET c == ck.source
         m == ck.output[1]
     IN  /\ m.id = c.id /\ m.fileKey = c.fileKey /\ m.type = c.type
         /\ KeepsFields(c.data, m.data)
         /\ "variables" \in DOMAIN c.data =>
               KeepsFields(c.data.variables, m.data.variables)

----------------------------------------------------------------------------
(* Filesystem adapter: one getChunk and one saveChunk of the same id, the  *)
(* chunk being stored before either starts.                                *)

\* the chunk stored first, and the chunk c' that saveChunk is given
StoredFirst == Chunk("A", "f1", "node", NewDate(0), Undefined, NewDate(0), "x", <<>>)

SavedOver ==
  Chunk("A", "f1", "node", NewDate(0), NewDate(StartTime + 400), NewDate(0), "yyy",
        <<"B">>)

InitGetSave ==
  /\ InitStore
  /\ backend = "fs"
  /\ useLocks \in BOOLEAN
  /\ disk = [chunk |-> serializeChunk(StoredFirst), tmp |-> Absent,
             lock |-> Absent, lockTmp |-> Absent]
  /\ fp = [p \in Procs |-> IdleFrame]
  /\ ConnIdle

\* the one call of getChunk(id), by p1
GetOnce == fp["p1"].op = "none" /\ StartGet("p1")

\* the one call of saveChunk(c'), by p2
SaveOnce == fp["p2"].op = "none" /\ StartSave("p2", SavedOver)

NextGetSave ==
  \/ GetOnce
  \/ SaveOnce
  \/ \E p \in Procs : AcqStat(p)
  \/ \E p \in Procs : SwWrite(p)
  \/ \E p \in Procs : SwUnlink(p)
  \/ \E p \in Procs : SwRename(p)
  \/ \E p \in Procs : SwFbRead(p)
  \/ \E p \in Procs : SwFbWrite(p)
  \/ \E p \in Procs : SwFbUnlink(p)
  \/ \E p \in Procs : GtRead(p)
  \/ \E p \in Procs : Release(p)
  \/ FsTick

SpecGetSave == InitGetSave /\ [][NextGetSave]_vars

\* getChunk and saveChunk(c') have both completed
BothCompleted ==
  /\ fp["p1"].op = "getChunk" /\ fp["p1"].pc = "idle"
  /\ fp["p2"].op = "saveChunk" /\ fp["p2"].pc = "idle"

\* C30 as stated: once a getChunk(id) and a saveChunk(c') of the same id
\* have both completed, the stored chunk has the data, links and expires
\* of c'; the read changed lastAccessed only.
C30_GetNeverUndoesSave ==
  BothCompleted =>
     /\ disk["chunk"] # Absent
     /\ disk["chunk"].data = SavedOver.data
     /\ disk["chunk"].links = SavedOver.links
     /\ disk["chunk"].expires = serializeChunk(SavedOver).expires

----------------------------------------------------------------------------
(* Coverage of the input tree by the chunks of Chunker.chunk               *)

\* what identifies a node of the tree: compression keeps these
NodeKey(n) == [id |-> n.id, type |-> n.type, own |-> n.own, image |-> n.image]

RECURSIVE TreeNodes(_)
\* the nodes of a tree; a reference object stands for no node
TreeNodes(n) ==
  IF n.ref THEN {}
  ELSE {NodeKey(n)} \cup UNION {TreeNodes(n.children[i]) : i \in DOMAIN n.children}

\* the nodes that are the data of a chunk or inline under data.children
ChunkedNodes(result) ==
  UNION {TreeNodes(result.chunks[i].data) : i \in DOMAIN result.chunks}

\* C31 as stated: every node of the tree given to Chunker.chunk is in the
\* returned chunks, as the data of a chunk or inline under some chunk's
\* data.children, at the optimization level MEDIUM as at NONE.
C31_EveryNodeInSomeChunk ==
  (ck.op = "chunk" /\ ck.input.type = "node" /\ ck.level \in {"none", "medium"}) =>
     TreeNodes(ck.input.data) \subseteq ChunkedNodes(ck.result)

----------------------------------------------------------------------------
(* FigmaChunker (figma-chunker.ts).  nodeMap is a function from the node   *)
(* ids it holds to [size, children]: the length of JSON.stringify(node)    *)
(* and the node's children ids.  A chunk keeps the ids of its nodes.       *)

\* generateChunkId: `chunk-${chunkIndex}-${md5(fileKey-chunkIndex)}`
generateChunkId(fileKey, chunkIndex) == [fileKey |-> fileKey, index |-> chunkIndex]

\* a chunk without nextChunkId
NoNextChunk == [fileKey |-> "", index |-> -1]

\* initializeFirstChunk and createNextChunk
FigmaChunk(fileKey, chunkIndex) ==
  [chunkId |-> generateChunkId(fileKey, chunkIndex), fileKey |-> fileKey,
   totalChunks |-> 0, nodes |-> <<>>, first |-> chunkIndex = 0,
   nextChunkId |-> NoNextChunk]

\* characters of a decimal number below 100
Digits(n) == IF n < 10 THEN 1 ELSE 2

\* {"chunkId":"chunk--<8 hex>","fileKey":"<2 chars>","totalChunks":,"nodes":}
EnvelopeSize == 68

\* ,"metadata":{},"globalVars":{} of the first chunk
FirstChunkSize == 30

\* ,"nextChunkId":"chunk--<8 hex>"
NextChunkIdSize == 32

\* JSON.stringify(chunk).length
ChunkJsonLength(chunk, nodeMap) ==
  EnvelopeSize + Digits(chunk.chunkId.index) + Digits(chunk.totalChunks)
  + ArraySize([i \in DOMAIN chunk.nodes |-> nodeMap[chunk.nodes[i]].size])
  + (IF chunk.first THEN FirstChunkSize ELSE 0)
  + (IF chunk.nextChunkId # NoNextChunk
     THEN NextChunkIdSize + Digits(chunk.nextChunkId.index) ELSE 0)

Reverse(s) == [i \in DOMAIN s |-> s[Len(s) + 1 - i]]

\* nodeQueue.pop() or nodeQueue.shift(): what is left of the queue
TakeNext(queue, depthFirst) ==
  IF depthFirst THEN SubSeq(queue, 1, Len(queue) - 1) ELSE Tail(queue)

\* only the first child is added to the queue
childrenToAdd_First(node, depthFirst) ==
  IF node.children = <<>> THEN <<>> ELSE <<node.children[1]>>

\* [...node.children], reversed for the stack of the depth-first order
childrenToAdd(node, depthFirst) ==
  IF depthFirst THEN Reverse(node.children) ELSE node.children

RECURSIVE ProcessQueue(_, _, _, _)
\* the while loop of createChunks
ProcessQueue(nodeMap, fileKey, config, st) ==
  IF st.nodeQueue = <<>> THEN st
  ELSE
    LET nodeId == IF config.depthFirst THEN st.nodeQueue[Len(st.nodeQueue)]
                  ELSE Head(st.nodeQueue)
        rest == TakeNext(st.nodeQueue, config.depthFirst)
    IN  IF nodeId \in st.processedNodes
        THEN ProcessQueue(nodeMap, fileKey, config, [st EXCEPT !.nodeQueue = rest])
        ELSE IF nodeId \notin DOMAIN nodeMap
        THEN ProcessQueue(nodeMap, fileKey, config,
                          [st EXCEPT !.nodeQueue = rest,
                                     !.processedNodes = @ \cup {nodeId}])
        ELSE
          LET node == nodeMap[nodeId]
              full == /\ ChunkJsonLength(st.currentChunk, nodeMap) + node.size
                           > config.maxChunkSize
                      /\ st.currentChunk.nodes # <<>>
              chunks == IF full THEN Append(st.chunks, st.currentChunk) ELSE st.chunks
              currentChunk == IF full THEN FigmaChunk(fileKey, Len(chunks))
                              ELSE st.currentChunk
          IN  ProcessQueue(nodeMap, fileKey, config,
                [nodeQueue |-> rest \o childrenToAdd(node, config.depthFirst),
                 processedNodes |-> st.processedNodes \cup {nodeId},
                 chunks |-> chunks,
                 currentChunk |-> [currentChunk EXCEPT !.nodes = Append(@, nodeId)]])

\* chunks[i].nextChunkId is the chunk's own id
NextChunkId_Self(chunks, i) == chunks[i].chunkId

\* chunks[i].nextChunkId = chunks[i + 1].chunkId, unset for the last chunk
NextChunkId(chunks, i) ==
  IF i < Len(chunks) THEN chunks[i + 1].chunkId ELSE NoNextChunk

\* FigmaChunker.createChunks
createChunks(nodeMap, rootNodeIds, fileKey, config) ==
  LET st == ProcessQueue(nodeMap, fileKey, config,
                         [nodeQueue |-> rootNodeIds, processedNodes |-> {},
                          chunks |-> <<>>, currentChunk |-> FigmaChunk(fileKey, 0)])
      chunks == IF st.currentChunk.nodes # <<>> THEN Append(st.chunks, st.currentChunk)
                ELSE st.chunks
  IN  [i \in DOMAIN chunks |->
         [chunks[i] EXCEPT !.totalChunks = Len(chunks),
                           !.nextChunkId = NextChunkId(chunks, i)]]

\* The arguments of createChunks
FigmaIds == {"a", "b", "c"}

\* an id that names no node of the map
MissingId == "z"

ChildLists ==
  LET ids == FigmaIds \cup {MissingId}
  IN  {<<>>} \cup {<<x>> : x \in ids} \cup {<<x, y>> : x \in ids, y \in ids}

FigmaMaxChunkSize == 400

NodeSize == 100

WideNodeSize == 170

NodeMaps ==
  {[id \in present |->
      [size |-> IF id = "b" THEN sb ELSE NodeSize,
       children |-> IF id = "a" THEN ca ELSE IF id = "b" THEN cb ELSE cc]] :
     present \in {FigmaIds, FigmaIds \ {"c"}},
     sb \in {NodeSize, WideNodeSize},
     ca \in ChildLists, cb \in ChildLists,
     cc \in {<<>>, <<"a">>, <<MissingId>>, <<"b", "a">>}}

RootLists == {<<"a">>, <<"a", "b">>, <<"c", "a", "c">>}

ChunkGenerationConfigs ==
  {[maxChunkSize |-> FigmaMaxChunkSize, depthFirst |-> d] : d \in BOOLEAN}

\* new FigmaChunker(config), the arguments of the call chosen
InitFigmaChunker ==
  /\ InitStore
  /\ backend = "fs"
  /\ FsIdle
  /\ rconn = [client |-> 0, connected |-> FALSE, connecting |-> 0,
              attempts |-> <<>>, timers |-> {}, quit |-> {}]
  /\ rcall = <<>>
  /\ mgr = <<>>
  /\ ck = <<>>
  /\ graph = <<>>
  /\ \E nodeMap \in NodeMaps, rootNodeIds \in RootLists,
        config \in ChunkGenerationConfigs :
          mcp = [op |-> "arguments", nodeMap |-> nodeMap, rootNodeIds |-> rootNodeIds,
                 config |-> config, chunks |-> <<>>]

\* figmaChunker.createChunks(nodeMap, metadata, globalVars, rootNodeIds, fileKey)
CreateChunks ==
  /\ mcp.op = "arguments"
  /\ mcp' = [mcp EXCEPT !.op = "createChunks",
                        !.chunks = createChunks(mcp.nodeMap, mcp.rootNodeIds, "K1",
                                                mcp.config)]
  /\ UNCHANGED <<storeVars, fsVars, connVars, mgr, ck, graph>>

NextFigmaChunker == CreateChunks

SpecFigmaChunker == InitFigmaChunker /\ [][NextFigmaChunker]_vars

RECURSIVE ReachableNodes(_, _, _)
\* the ids of the map reachable from the ids in `from` through children ids
ReachableNodes(nodeMap, from, seen) ==
  LET new == (from \cap DOMAIN nodeMap) \ seen
  IN  IF new = {} THEN seen
      ELSE ReachableNodes(nodeMap,
                          UNION {{nodeMap[id].children[i] : i \in DOMAIN nodeMap[id].children} :
                                   id \in new},
                          seen \cup new)

\* how many times the chunks hold the node id
Placements(chunks, id) ==
  SumSeq([i \in DOMAIN chunks |->
            Cardinality({j \in DOMAIN chunks[i].nodes : chunks[i].nodes[j] = id})])

\* C34 as stated: createChunks places every node that is in the node map
\* and reachable from rootNodeIds through children ids into exactly one
\* chunk, depth-first and breadth-first, also when an id is listed under
\* several parents or the children ids form a cycle.
C34_EveryReachableNodeOnce ==
  mcp.op = "createChunks" =>
     \A id \in ReachableNodes(mcp.nodeMap,
                              {mcp.rootNodeIds[i] : i \in DOMAIN mcp.rootNodeIds}, {}) :
        Placements(mcp.chunks, id) = 1

\* breadth-first, "b" listed under two parents and on a cycle with "a",
\* three nodes placed in two chunks or more
C34_Witness ==
  /\ mcp.op = "createChunks"
  /\ ~mcp.config.depthFirst
  /\ mcp.nodeMap["a"].children = <<"b", "c">>
  /\ "c" \in DOMAIN mcp.nodeMap /\ mcp.nodeMap["c"].children = <<"b", "a">>
  /\ mcp.nodeMap["b"].children = <<"a", MissingId>>
  /\ Len(mcp.chunks) >= 2
  /\ \A id \in FigmaIds : Placements(mcp.chunks, id) = 1

\* C39 as stated: every chunk createChunks returns with more than one node
\* has, in its final form with totalChunks and nextChunkId, a JSON length
\* of at most maxChunkSize characters.
C39_ChunkJsonWithinMax ==
  mcp.op = "createChunks" =>
     \A i \in DOMAIN mcp.chunks :
        Len(mcp.chunks[i].nodes) > 1 =>
           ChunkJsonLength(mcp.chunks[i], mcp.nodeMap) <= mcp.config.maxChunkSize

----------------------------------------------------------------------------
(* The tools get_figma_data and get_figma_chunk (part_006) over the        *)
(* FigmaCacheManager (part_008), for one fileKey.  mcp.cache maps a chunk  *)
(* index to the content of <cacheDir>/<fileKey>/<chunkId>.json; every      *)
(* awaited cacheChunk is one step.  mcp.consumer follows the chunks of the *)
(* get_figma_data call of p1 from the moment that call returns.            *)

ToolCallers == {"p1", "p2"}

NoFile == [exists |-> FALSE]

MaxPages == 4

\* what figmaService returns for the fileKey: the nodes and the root ids
Designs ==
  {[nodeMap |-> [id \in {"a", "b", "c"} |->
                   [size |-> WideNodeSize,
                    children |-> IF id = "a" THEN <<"b", "c">> ELSE <<>>]],
    rootNodeIds |-> <<"a">>],
   [nodeMap |-> [id \in {"b", "c"} |-> [size |-> NodeSize, children |-> <<>>]],
    rootNodeIds |-> <<"c", "b">>],
   [nodeMap |-> [id \in {"c", "a"} |-> [size |-> WideNodeSize, children |-> <<>>]],
    rootNodeIds |-> <<"c", "a">>],
   [nodeMap |-> <<>>, rootNodeIds |-> <<>>]}

\* alone: no other get_figma_data has been caching during this call
IdleToolCall == [pc |-> "idle", chunks |-> <<>>, i |-> 0, isError |-> FALSE, alone |-> TRUE]

IdleConsumer ==
  [pc |-> "idle", ingest |-> <<>>, received |-> <<>>, next |-> NoNextChunk,
   disturbed |-> FALSE]

\* FileSystem.writeJsonFile: JSON.stringify leaves out a property that is
\* undefined, as nextChunkId is in the last chunk
writeJsonFile(chunk) ==
  IF chunk.nextChunkId = NoNextChunk
  THEN [k \in DOMAIN chunk \ {"nextChunkId"} |-> chunk[k]]
  ELSE chunk

\* FileSystem.readJsonFile: JSON.parse; chunk.nextChunkId of a file without
\* the property is undefined
readJsonFile(content) ==
  IF "nextChunkId" \in DOMAIN content THEN content
  ELSE [nextChunkId |-> NoNextChunk] @@ content

\* the consumer takes the result of get_figma_data: the first chunk and
\* its chunking.nextChunkId
StartPaging(chunks, disturbed) ==
  [pc |-> IF chunks[1].nextChunkId = NoNextChunk THEN "done" ELSE "paging",
   ingest |-> chunks, received |-> <<chunks[1]>>, next |-> chunks[1].nextChunkId,
   disturbed |-> disturbed]

OtherIngestRunning(p) == \E q \in ToolCallers \ {p} : mcp.calls[q].pc = "caching"

\* get_figma_data(fileKey): the file is fetched and createChunks runs; with
\* no chunk, chunks[0] is undefined and the tool returns isError
GetFigmaData(p, design) ==
  /\ mcp.calls[p].pc # "caching"
  /\ LET chunks == createChunks(design.nodeMap, design.rootNodeIds, "K1",
                                [maxChunkSize |-> FigmaMaxChunkSize, depthFirst |-> TRUE])
         call == IF chunks = <<>>
                 THEN [IdleToolCall EXCEPT !.pc = "returned", !.isError = TRUE]
                 ELSE [pc |-> "caching", chunks |-> chunks, i |-> 1, isError |-> FALSE,
                       alone |-> ~OtherIngestRunning(p)]
     IN  mcp' = [mcp EXCEPT !.calls =
                   [q \in ToolCallers |->
                      IF q = p THEN call
                      ELSE IF call.pc = "caching" /\ mcp.calls[q].pc = "caching"
                      THEN [mcp.calls[q] EXCEPT !.alone = FALSE]
                      ELSE mcp.calls[q]]]
  /\ UNCHANGED <<storeVars, fsVars, connVars, mgr, ck, graph>>

\* cacheChunks: await this.cacheChunk(fileKey, chunk) for the next chunk;
\* after the last one the tool returns the first chunk
CacheChunk(p) ==
  /\ mcp.calls[p].pc = "caching"
  /\ LET call == mcp.calls[p]
         chunk == call.chunks[call.i]
         isLast == call.i = Len(call.chunks)
     IN  mcp' = [mcp EXCEPT
                   !.cache[chunk.chunkId.index] = writeJsonFile(chunk),
                   !.calls[p] = IF isLast THEN [call EXCEPT !.pc = "returned"]
                                ELSE [call EXCEPT !.i = @ + 1],
                   !.consumer =
                      IF p = "p1" /\ isLast /\ mcp.consumer.pc = "idle"
                      THEN StartPaging(call.chunks, ~call.alone)
                      ELSE IF mcp.consumer.pc = "paging"
                      THEN [mcp.consumer EXCEPT !.disturbed = TRUE]
                      ELSE mcp.consumer]
  /\ UNCHANGED <<storeVars, fsVars, connVars, mgr, ck, graph>>

\* get_figma_chunk(fileKey, nextChunkId) by the consumer
GetFigmaChunk ==
  /\ mcp.consumer.pc = "paging"
  /\ Len(mcp.consumer.received) < MaxPages
  /\ LET c == mcp.consumer
         file == mcp.cache[c.next.index]
     IN  mcp' = [mcp EXCEPT !.consumer =
                   IF file = NoFile THEN [c EXCEPT !.pc = "notFound"]
                   ELSE LET chunk == readJsonFile(file)
                        IN  [c EXCEPT !.received = Append(@, chunk),
                                      !.next = chunk.nextChunkId,
                                      !.pc = IF chunk.nextChunkId = NoNextChunk
                                             THEN "done" ELSE "paging"]]
  /\ UNCHANGED <<storeVars, fsVars, connVars, mgr, ck, graph>>

\* the consumer is ready to follow the next get_figma_data of p1
ConsumerReset ==
  /\ mcp.consumer.pc \in {"done", "notFound"}
  /\ mcp' = [mcp EXCEPT !.consumer = IdleConsumer]
  /\ UNCHANGED <<storeVars, fsVars, connVars, mgr, ck, graph>>

InitMcp ==
  /\ InitStore
  /\ backend = "fs"
  /\ FsIdle
  /\ rconn = [client |-> 0, connected |-> FALSE, connecting |-> 0,
              attempts |-> <<>>, timers |-> {}, quit |-> {}]
  /\ rcall = <<>>
  /\ mgr = <<>>
  /\ ck = <<>>
  /\ graph = <<>>
  /\ mcp = [cache |-> [i \in 0..2 |-> NoFile],
            calls |-> [p \in ToolCallers |-> IdleToolCall],
            consumer |-> IdleConsumer]

NextMcp ==
  \/ \E p \in ToolCallers, design \in Designs : GetFigmaData(p, design)
  \/ \E p \in ToolCallers : CacheChunk(p)
  \/ GetFigmaChunk
  \/ ConsumerReset

SpecMcp == InitMcp /\ [][NextMcp]_vars

IsPrefix(s, t) == Len(s) <= Len(t) /\ s = SubSeq(t, 1, Len(s))

\* C32 as stated: after get_figma_data succeeds, with no other ingest
\* running, a consumer that follows nextChunkId receives every chunk of the
\* ingest exactly once, reaches a chunk without nextChunkId after exactly
\* totalChunks chunks, and never gets `not found`.
C32_PagingReachesEveryChunk ==
  (mcp.consumer.pc # "idle" /\ ~mcp.consumer.disturbed) =>
     LET c == mcp.consumer IN
     /\ c.pc # "notFound"
     /\ IsPrefix(c.received, c.ingest)
     /\ c.pc = "done" <=> c.received = c.ingest
     /\ c.pc = "done" => Len(c.received) = c.ingest[1].totalChunks

\* the consumer has paged through an ingest of three chunks, undisturbed,
\* over the files of an earlier ingest
C32_Witness ==
  /\ mcp.consumer.pc = "done"
  /\ ~mcp.consumer.disturbed
  /\ Len(mcp.consumer.received) = 3
  /\ mcp.calls["p2"].pc = "returned" /\ ~mcp.calls["p2"].isError

\* C33 as stated: when a second get_figma_data of the same fileKey runs
\* while the consumer pages through the chunks of the first, every chunk
\* the consumer fetches by nextChunkId still belongs to the first ingest.
C33_PagingStaysInFirstIngest ==
  mcp.consumer.pc # "idle" =>
     /\ mcp.consumer.pc # "notFound"
     /\ \A i \in DOMAIN mcp.consumer.received :
           \E j \in DOMAIN mcp.consumer.ingest :
              mcp.consumer.received[i] = mcp.consumer.ingest[j]

----------------------------------------------------------------------------
(* Filesystem adapter: cleanup() or getChunk meets a stored chunk whose    *)
(* expires passes, while saveChunk writes a fresh version of the same id.  *)

\* stored first: expires passes with the tick of the clock
ExpiringChunk ==
  Chunk("A", "f1", "node", NewDate(0), NewDate(StartTime + 400), NewDate(0), "x", <<>>)

\* the fresh version: expires stays ahead of the clock
FreshChunk ==
  Chunk("A", "f1", "node", NewDate(0),
        NewDate(StartTime + (MaxFsTicks + 1) * (LockTimeout + 1)), NewDate(0), "yyy", <<>>)

\* the file holds a chunk whose expires is before the time t
FileExpired(file, t) ==
  /\ file.expires # Absent
  /\ t > (IF file.expires.type = "object" THEN file.expires.value.time
          ELSE file.expires.time)

InitExpiry ==
  /\ InitStore
  /\ backend = "fs"
  /\ useLocks \in BOOLEAN
  /\ disk = [chunk |-> serializeChunk(ExpiringChunk), tmp |-> Absent,
             lock |-> Absent, lockTmp |-> Absent]
  /\ fp = [p \in Procs |-> IdleFrame]
  /\ ConnIdle

\* cleanup() is called by p1: the file is in the list getAllFiles gave
StartCleanup ==
  /\ fp["p1"].op = "none"
  /\ Step("p1", [IdleFrame EXCEPT !.op = "cleanup", !.pc = "cl_read"], disk)

\* cleanup: safeReadFile, deserializeChunk and isExpired for the file
ClRead(p) ==
  /\ fp[p].pc = "cl_read"
  /\ Step(p, IF disk["chunk"] = Absent THEN Finish(fp[p], Null)
             ELSE IF isExpired(deserializeChunk(disk["chunk"]), now)
             THEN [fp[p] EXCEPT !.pc = "cl_unlink"]
             ELSE [Finish(fp[p], Null) EXCEPT !.buf = disk["chunk"]],
          disk)

\* saveChunk of the fresh version, by p2
SaveFresh == fp["p2"].op = "none" /\ StartSave("p2", FreshChunk)

NextExpiry ==
  \/ GetOnce
  \/ StartCleanup
  \/ SaveFresh
  \/ \E p \in Procs : ClRead(p)
  \/ \E p \in Procs : AcqStat(p)
  \/ \E p \in Procs : SwWrite(p)
  \/ \E p \in Procs : SwUnlink(p)
  \/ \E p \in Procs : SwRename(p)
  \/ \E p \in Procs : SwFbRead(p)
  \/ \E p \in Procs : SwFbWrite(p)
  \/ \E p \in Procs : SwFbUnlink(p)
  \/ \E p \in Procs : GtRead(p)
  \/ \E p \in Procs : Release(p)
  \/ FsTick

SpecExpiry == InitExpiry /\ [][NextExpiry]_vars

RunsOperationAgain(p) ==
  /\ fp[p].pc = "release"
  /\ fp[p].thrown
  /\ fp'[p] = EnterBody([fp[p] EXCEPT !.thrown = FALSE], "fallback")

\* C36 as stated: each saveChunk, getChunk or deleteChunk runs its file
\* operation exactly once, also when the lock cannot be acquired and when
\* the operation fails: a failed operation is not run a second time.
C36_OperationRunsOnce == [][\A p \in Procs : ~RunsOperationAgain(p)]_vars

----------------------------------------------------------------------------
(* Claim on reconnecting the Redis adapter                                 *)

\* the last connect attempt has settled and the adapter is not connected:
\* the attempt failed, or the connection it established has closed
ConnectionLost ==
  /\ rconn.attempts # <<>>
  /\ PendingAttempts = {}
  /\ ~rconn.connected

\* caller p's `await this.connect()` runs connect()
RunsConnect(p) ==
  /\ rcall[p].pc = "connect"
  /\ rcall'[p] # rcall[p]

\* C37 as stated: after a connection attempt has failed or an established
\* connection has closed, the connect() of a later storage operation starts
\* a new connection attempt.
C37_LostConnectionIsRetried ==
  [][\A p \in Callers :
        (ConnectionLost /\ RunsConnect(p)) =>
           Len(rconn'.attempts) > Len(rconn.attempts)]_vars

----------------------------------------------------------------------------
(* hasChunk of the three adapters                                          *)

\* fs.stat(filePath).isFile(): the file is not read
FsHasChunk(files, id) == files[id] # Absent

\* EXISTS <prefix>chunk:<id>
RedisHasChunk(R, id, t) == RedisLive(R, id, t)

\* countDocuments({ _id: id }, { limit: 1 }) > 0
MongoHasChunk(docs, id) == docs[id] # Absent

HasChunkRet(id) ==
  CASE backend = "fs" -> FsHasChunk(fsFiles, id)
    [] backend = "redis" -> RedisHasChunk(CurR, id, now)
    [] backend = "mongo" -> MongoHasChunk(mongoDocs, id)

HasChunk(id) ==
  /\ last' = Op("hasChunk", id, NoChunk, HasChunkRet(id), Stored(id), Stored(id),
                NoChunk, Stored(id) /\ ExpiresBefore(StoredChunk(id), now))
  /\ UNCHANGED <<backend, now, fsFiles, redisKeys, redisIndex, redisTypeIndex,
                 redisFileIndex, mongoDocs, mongoInFlight, nonStoreVars>>

NextHas ==
  \/ \E c \in StoreChunks : SaveChunk(c)
  \/ \E id \in Ids : GetChunk(id)
  \/ \E id \in Ids : HasChunk(id)
  \/ \E id \in Ids, fails \in BOOLEAN : DeleteChunk(id, fails)
  \/ Cleanup
  \/ \E c \in mongoInFlight : MongoComplete(c)
  \/ Tick

SpecHas == Init /\ [][NextHas]_vars

\* getChunk(id) runs right after a hasChunk(id) that returned true
GetAfterHas ==
  /\ last.op = "hasChunk"
  /\ last.ret = TRUE
  /\ last'.op = "getChunk"
  /\ last'.id = last.id

\* C38 as stated: for every adapter, a getChunk(id) that follows a
\* hasChunk(id) that returned true, with no operation in between, returns
\* a chunk.
C38_HasChunkImpliesGetChunk ==
  [][GetAfterHas => (last'.ret # Null /\ last'.ret # Failed)]_vars

----------------------------------------------------------------------------
(* FigmaMcpServer: the HTTP server and its SSE sessions.  mcp.httpServer   *)
(* is "null" for this.httpServer = null, else the state of the server:     *)
(* "listening", or "closing" once close() was called.  mcp.sockets[s] is   *)
(* the response of GET /sse of session s, mcp.transports the keys of       *)
(* this.transports, mcp.closed the transports close() was called on.       *)

Sessions == {"s1", "s2", "s3"}

InitHttp ==
  /\ InitStore
  /\ backend = "fs"
  /\ FsIdle
  /\ rconn = [client |-> 0, connected |-> FALSE, connecting |-> 0,
              attempts |-> <<>>, timers |-> {}, quit |-> {}]
  /\ rcall = <<>>
  /\ mgr = <<>>
  /\ ck = <<>>
  /\ graph = <<>>
  /\ mcp = [httpServer |-> "null", transports |-> {}, closed |-> {},
            sockets |-> [s \in Sessions |-> "none"], stop |-> "none"]

HttpStep(m) ==
  /\ mcp' = m
  /\ UNCHANGED <<storeVars, fsVars, connVars, mgr, ck, graph>>

\* this.httpServer = app.listen(port, ...)
startHttpServer ==
  /\ mcp.httpServer = "null"
  /\ HttpStep([mcp EXCEPT !.httpServer = "listening"])

\* GET /sse: a transport is made for the response and registered
SseConnect(s) ==
  /\ mcp.httpServer = "listening"
  /\ mcp.sockets[s] = "none"
  /\ HttpStep([mcp EXCEPT !.sockets[s] = "open", !.transports = @ \cup {s}])

\* the client of session s disconnects: res.on("close") deletes the transport
ResClose(s) ==
  /\ mcp.sockets[s] = "open"
  /\ HttpStep([mcp EXCEPT !.sockets[s] = "closed", !.transports = @ \ {s}])

\* stopHttpServer() is called: it throws without a server, else it calls
\* httpServer.close(callback), which stops accepting connections
stopHttpServer ==
  /\ mcp.stop # "pending"
  /\ HttpStep(IF mcp.httpServer = "null" THEN [mcp EXCEPT !.stop = "rejected"]
              ELSE [mcp EXCEPT !.httpServer = "closing", !.stop = "pending"])

\* the callback of close(): the server calls it when every connection has
\* ended; it clears the field, closes the registered transports and resolves
ServerClosed ==
  /\ mcp.httpServer = "closing"
  /\ \A s \in Sessions : mcp.sockets[s] # "open"
  /\ HttpStep([mcp EXCEPT !.httpServer = "null",
                          !.closed = @ \cup mcp.transports,
                          !.sockets = [s \in Sessions |->
                                         IF s \in mcp.transports THEN "closed" ELSE @[s]],
                          !.transports = {},
                          !.stop = "resolved"])

NextHttp ==
  \/ startHttpServer
  \/ \E s \in Sessions : SseConnect(s)
  \/ \E s \in Sessions : ResClose(s)
  \/ stopHttpServer
  \/ ServerClosed

\* the event loop runs the callback of close() once the server is closed;
\* when a client disconnects is for the client to decide
SpecHttp == InitHttp /\ [][NextHttp]_vars /\ WF_vars(ServerClosed)

\* C40 as stated: a stopHttpServer() call that found the server running
\* eventually resolves, also when SSE sessions are open when it is called.
C40_StopEventuallyResolves ==
  (mcp.stop = "pending") ~> (mcp.stop = "resolved")

====
